---------------------------- MODULE Spec2Model ----------------------------
(***************************************************************************)
(* A model of the galileo-ssi package: the ISIS cube decoder               *)
(* (ssi/isis/isis.py), the alignment functions (ssi/align.py), the SSI     *)
(* facade with its pixel accessor (ssi/ssi.py, ssi/img.py, ssi/pixel.py),  *)
(* the contour tracer (ssi/geometry/contour.py) and the GeoJson objects    *)
(* (ssi/misc/geojson.py).                                                  *)
(*                                                                         *)
(* numpy arrays are modelled as records [err, shape, flat]: `flat` is the  *)
(* content in C (row-major) order, indexed from 0 as in the code, `shape`  *)
(* the tuple of dimensions, and `err` the exception raised instead of a    *)
(* value ("" when there is none).                                          *)
(*                                                                         *)
(* Floating-point pixels are modelled by integers: the finite values are   *)
(* -FloatMax..FloatMax, and NaN is one value outside that range.           *)
(***************************************************************************)
EXTENDS Integers, Sequences, FiniteSets, TLC

VARIABLES
    hdr,        \* ISIS header fields read by the decoder (Core, Dimensions, Pixels)
    stream,     \* raw pixels of the file, in on-disk order
    cube,       \* ISISCube.__cube: None, the decoded array, or the error raised
    offset,     \* SSI.offset: <<>> (False) or <<offset_s, offset_l>>
    got,        \* value returned (or exception raised) by the last call on the SSI
    cond,       \* conditional mask handed to edges()
    threshold,  \* ls_contours threshold
    contours,   \* result of ls_contours(edges(cond), threshold)
    ret,        \* value returned (or exception raised) by the last access to .cube
                \* or to the radii of the target
    filename,   \* ISISCube.filename: the path the object holds, 0 without object
    disk,       \* the files behind the paths
    caches,     \* the header caches that are not None: pvl, labels, tables, lbls
    loads,      \* times _load_data has returned since filename was assigned
    call,       \* the last call on the ISISCube, its path and its exception
    geoCall,    \* the last call of the GeoJson module: class, arguments, prec
    geo,        \* the object it returned, or the exception it raised
    lorri       \* LORRI.__src and LORRI.__data, the memoized I/F data or None

vars ==
    <<hdr, stream, cube, offset, got, cond, threshold, contours, ret,
      filename, disk, caches, loads, call, geoCall, geo, lorri>>

cubeVars == <<hdr, stream, cube, ret>>
ssiVars == <<offset, got>>
cntrVars == <<cond, threshold, contours>>
fileVars == <<filename, disk, caches, loads, call>>
geoVars == <<geoCall, geo>>
lorriVars == <<lorri>>

---------------------------------------------------------------------------
(* Bounds of the model.                                                    *)

MaxBands == 2       \* bands of a tiled cube
MaxLines == 4       \* lines (and tile lines) of a tiled cube
MaxSamples == 4     \* samples (and tile samples) of a tiled cube
MaxPix == 3         \* pixels of a float cube whose stream takes every value
MaxImg == 3         \* lines and samples of an SSI image
MaxFoot == 2        \* pixels of the data footprint of an image to align
MaxOff == 2         \* magnitude of an offset given to SSI.alignment

---------------------------------------------------------------------------
(* Floating point values.                                                  *)

FloatMax == 1000000000      \* np.finfo(dtype).max, in model units
TolInv == 1000000           \* 1 / tol of _is_null (tol = 1e-6)
NaN == FloatMax + 2

Abs(x) == IF x < 0 THEN -x ELSE x

---------------------------------------------------------------------------
(* numpy arrays.                                                           *)

RECURSIVE Prod(_)
Prod(shape) == IF Len(shape) = 0 THEN 1 ELSE Head(shape) * Prod(Tail(shape))

NoneArr == [err |-> "None", shape |-> <<>>, flat |-> <<>>]
ErrArr(e) == [err |-> e, shape |-> <<>>, flat |-> <<>>]
Arr(shape, flat) == [err |-> "", shape |-> shape, flat |-> flat]

Size(a) == Prod(a.shape)

\* np.reshape(a, shape): the same content in C order under a new shape.
NpReshape(a, shape) ==
    IF a.err # "" THEN a
    ELSE IF Prod(shape) = Size(a) THEN Arr(shape, a.flat)
    ELSE ErrArr("ValueError")

\* np.moveaxis(a, 1, 2) of a 3-D array (also np.moveaxis(a, 2, 1)):
\* out[i, k, j] = a[i, j, k].
MoveAxis12(a) ==
    IF a.err # "" THEN a
    ELSE LET d0 == a.shape[1]
             d1 == a.shape[2]
             d2 == a.shape[3]
         IN Arr(<<d0, d2, d1>>,
                [n \in 0..(d0 * d1 * d2 - 1) |->
                    LET i == n \div (d2 * d1)
                        k == (n \div d1) % d2
                        j == n % d1
                    IN a.flat[i * d1 * d2 + j * d2 + k]])

---------------------------------------------------------------------------
(* ISISCube: the decoder.                                                  *)

Shape(h) == <<h.NB, h.NL, h.NS>>

Underflow(h) == -FloatMax
Overflow(h) == FloatMax

\* abs(data / underflow) >= tol | abs(data / overflow) >= tol; a comparison
\* with NaN is false.  |v| / FloatMax >= 1 / TolInv is written without the
\* division: TolInv divides FloatMax.
IsNull(h, v) ==
    IF h.Type # "Real" THEN FALSE
    ELSE /\ v # NaN
         /\ \/ Abs(v) >= Abs(Underflow(h)) \div TolInv
            \/ Abs(v) >= Abs(Overflow(h)) \div TolInv

\* np.max(data): NaN when the array holds one.
NpMax(flat) ==
    IF \E i \in DOMAIN flat : flat[i] = NaN THEN NaN
    ELSE CHOOSE m \in {flat[i] : i \in DOMAIN flat} :
            \A i \in DOMAIN flat : flat[i] <= m

\* frombuffer(...) * Multiplier + Base
Rescale(h, v) == IF v = NaN THEN NaN ELSE v * h.Mult + h.Base

\* Reshape without the last step (the stack in the lines direction).
Reshape_NoLineStack(h, data) ==
    IF h.TS = h.NS /\ h.TL = h.NL THEN NpReshape(data, Shape(h))
    ELSE LET size == Size(data)
             tiled_data == NpReshape(data, <<size \div (h.TL * h.TS), h.TL, h.TS>>)
         IN MoveAxis12(NpReshape(MoveAxis12(tiled_data),
                                 <<size \div (h.TL * h.NS), h.NS, h.TL>>))

\* Reshape that takes the stream to be in line order whatever the tile size.
Reshape_Untiled(h, data) == NpReshape(data, Shape(h))

\* ISISCube._reshape
Reshape(h, data) ==
    IF h.TS = h.NS /\ h.TL = h.NL THEN NpReshape(data, Shape(h))
    ELSE LET size == Size(data)
             tiled_data == NpReshape(data, <<size \div (h.TL * h.TS), h.TL, h.TS>>)
             samples_stacked ==
                 MoveAxis12(NpReshape(MoveAxis12(tiled_data),
                                      <<size \div (h.TL * h.NS), h.NS, h.TL>>))
         IN NpReshape(samples_stacked, Shape(h))

LoadData(h, raw) ==
    LET scaled == [i \in DOMAIN raw |-> Rescale(h, raw[i])]
        dmax == NpMax(scaled)
        fixed == [i \in DOMAIN raw |->
                    IF scaled[i] # NaN /\ scaled[i] = Underflow(h) THEN dmax
                    ELSE scaled[i]]
        nulled == [i \in DOMAIN raw |-> IF IsNull(h, fixed[i]) THEN NaN ELSE fixed[i]]
        data == IF h.Type = "Real" THEN nulled ELSE scaled
    IN Reshape(h, Arr(<<h.NB * h.NL * h.NS>>, data))

---------------------------------------------------------------------------
(* 2-D arrays.                                                             *)

At(a, l, s) == a.flat[l * a.shape[2] + s]

Arr2(nl, ns, F(_, _)) ==
    Arr(<<nl, ns>>, [k \in 0..(nl * ns - 1) |-> F(k \div ns, k % ns)])

Min2(a, b) == IF a < b THEN a ELSE b
Max2(a, b) == IF a > b THEN a ELSE b

\* The indices start:stop selects along an axis of length n.  A bound is
\* <<>> (None) or <<k>>; a negative k counts from the end.
SliceBound(k, n) == IF k < 0 THEN Max2(k + n, 0) ELSE Min2(k, n)
SliceStart(start, n) == IF start = <<>> THEN 0 ELSE SliceBound(start[1], n)
SliceStop(stop, n) == IF stop = <<>> THEN n ELSE SliceBound(stop[1], n)
SliceLen(start, stop, n) == Max2(SliceStop(stop, n) - SliceStart(start, n), 0)

RECURSIVE SumF(_, _)
\* f[0] + ... + f[n-1]
SumF(f, n) == IF n = 0 THEN 0 ELSE f[n - 1] + SumF(f, n - 1)

---------------------------------------------------------------------------
(* ssi/align.py                                                            *)

\* np.nansum(a, axis): NaN counts for 0.
NanSum(a, axis) ==
    LET nl == a.shape[1]
        ns == a.shape[2]
        Z(v) == IF v = NaN THEN 0 ELSE v
    IN IF axis = 0
       THEN [s \in 0..(ns - 1) |-> SumF([l \in 0..(nl - 1) |-> Z(At(a, l, s))], nl)]
       ELSE [l \in 0..(nl - 1) |-> SumF([s \in 0..(ns - 1) |-> Z(At(a, l, s))], ns)]

\* np.correlate(a, v, 'same') of two profiles of the same length n:
\* c[j] = sum_m a[m] * v[m + n // 2 - j].
CorrelateSame(a, v, n) ==
    [j \in 0..(n - 1) |->
        SumF([m \in 0..(n - 1) |->
                IF (m + n \div 2 - j) \in 0..(n - 1)
                THEN a[m] * v[m + n \div 2 - j] ELSE 0], n)]

\* np.argmax: the first index of the maximum.
ArgMax(c) ==
    CHOOSE j \in DOMAIN c :
        /\ \A i \in DOMAIN c : c[i] <= c[j]
        /\ \A i \in DOMAIN c : i < j => c[i] < c[j]

\* corr_offset that takes the length of the correlation for its middle.
CorrOffset_Length(data, nav, axis) ==
    LET n == IF axis = 0 THEN data.shape[2] ELSE data.shape[1]
        d == NanSum(data, axis)
        s == NanSum(nav, axis)
        m == [i \in 0..(n - 1) |-> IF s[i] > 0 THEN 1 ELSE 0]
        corr == CorrelateSame(m, d, n)
    IN n - ArgMax(corr)

\* corr_offset(data, nav, axis), axis 0 or 1.
CorrOffset(data, nav, axis) ==
    LET n == IF axis = 0 THEN data.shape[2] ELSE data.shape[1]
        d == NanSum(data, axis)
        s == NanSum(nav, axis)
        m == [i \in 0..(n - 1) |-> IF s[i] > 0 THEN 1 ELSE 0]
        corr == CorrelateSame(m, d, n)
    IN n \div 2 - ArgMax(corr)

\* data_offset that masks the border opposite to the offset.
DataOffset_Opposite(data, ds, dl) ==
    LET nl == data.shape[1]
        ns == data.shape[2]
    IN Arr2(nl, ns, LAMBDA l, s :
            IF (ds > 0 /\ s >= ns - ds) \/ (ds < 0 /\ s < -ds)
               \/ (dl > 0 /\ l >= nl - dl) \/ (dl < 0 /\ l < -dl)
            THEN NaN ELSE At(data, l, s))

\* data_offset(data, ds, dl)
DataOffset(data, ds, dl) ==
    LET nl == data.shape[1]
        ns == data.shape[2]
        MaskS(s) == IF ds > 0 THEN s < SliceStop(<<ds>>, ns)
                    ELSE IF ds < 0 THEN s >= SliceStart(<<ds>>, ns)
                    ELSE FALSE
        MaskL(l) == IF dl > 0 THEN l < SliceStop(<<dl>>, nl)
                    ELSE IF dl < 0 THEN l >= SliceStart(<<dl>>, nl)
                    ELSE FALSE
    IN Arr2(nl, ns, LAMBDA l, s : IF MaskS(s) \/ MaskL(l) THEN NaN ELSE At(data, l, s))

\* nav_offset(nav, ds, dl): new[l2:l3, s2:s3] = nav[l0:l1, s0:s1].  The
\* assignment raises ValueError unless, on each axis, the source has the
\* length of the destination or the length 1 (which numpy broadcasts).
NavOffset(nav, ds, dl) ==
    LET nl == nav.shape[1]
        ns == nav.shape[2]
        S == IF ds >= 0 THEN <<<<>>, <<ns - ds>>, <<ds>>, <<>>>>
             ELSE <<<<-ds>>, <<>>, <<>>, <<ns + ds>>>>
        L == IF dl >= 0 THEN <<<<>>, <<nl - dl>>, <<dl>>, <<>>>>
             ELSE <<<<-dl>>, <<>>, <<>>, <<nl + dl>>>>
        srcS == SliceLen(S[1], S[2], ns)
        dstS == SliceLen(S[3], S[4], ns)
        srcL == SliceLen(L[1], L[2], nl)
        dstL == SliceLen(L[3], L[4], nl)
        s0 == SliceStart(S[1], ns)
        s2 == SliceStart(S[3], ns)
        l0 == SliceStart(L[1], nl)
        l2 == SliceStart(L[3], nl)
    IN IF ~((srcS = dstS \/ srcS = 1) /\ (srcL = dstL \/ srcL = 1))
       THEN ErrArr("ValueError")
       ELSE Arr2(nl, ns, LAMBDA l, s :
                IF l >= l2 /\ l < l2 + dstL /\ s >= s2 /\ s < s2 + dstS
                THEN At(nav, l0 + (IF srcL = 1 THEN 0 ELSE l - l2),
                             s0 + (IF srcS = 1 THEN 0 ELSE s - s2))
                ELSE NaN)

\* img_offset that translates whatever is_data.
ImgOffset_AlwaysNav(arr, off, is_data) ==
    IF off = <<>> THEN arr ELSE NavOffset(arr, off[1], off[2])

\* img_offset that masks and translates the data.
ImgOffset_Both(arr, off, is_data) ==
    IF off = <<>> THEN arr
    ELSE IF is_data THEN NavOffset(DataOffset(arr, off[1], off[2]), off[1], off[2])
    ELSE NavOffset(arr, off[1], off[2])

\* img_offset(arr, offset, is_data); `not offset` holds of False only, a
\* tuple (ds, dl) is never empty.
ImgOffset(arr, off, is_data) ==
    IF off = <<>> THEN arr
    ELSE IF is_data THEN DataOffset(arr, off[1], off[2])
    ELSE NavOffset(arr, off[1], off[2])

---------------------------------------------------------------------------
(* ssi/ssi.py, ssi/img.py, ssi/pixel.py                                    *)

\* self.cube[ilayer, :, :]
Band(c, i) ==
    LET nl == c.shape[2]
        ns == c.shape[3]
    IN Arr2(nl, ns, LAMBDA l, s : c.flat[(i * nl + l) * ns + s])

RECURSIVE IndexOf(_, _, _)
\* list.index, from 0; -1 when the name is not in the list.
IndexOf(names, name, i) ==
    IF i > Len(names) THEN -1
    ELSE IF names[i] = name THEN i - 1
    ELSE IndexOf(names, name, i + 1)

\* _get_layer that falls back on the first layer.
GetLayer_Fallback(h, name) ==
    Max2(IndexOf(h.Name, IF name = "Data" THEN h.FilterName ELSE name, 1), 0)

\* SSI._get_layer: the index of the layer, -1 for the ValueError.
GetLayer(h, name) ==
    IndexOf(h.Name, IF name = "Data" THEN h.FilterName ELSE name, 1)

\* SSI[name] for a string.
GetBand(h, c, off, name) ==
    LET ilayer == GetLayer(h, name)
    IN IF ilayer < 0 THEN ErrArr("ValueError")
       ELSE ImgOffset(Band(c, ilayer), off, name = "Data")

\* SSI.ground: ~np.isnan(self.inc), as 0 / 1.
Ground(h, c, off) ==
    LET inc == GetBand(h, c, off, "Incidence Angle")
    IN Arr2(h.NL, h.NS, LAMBDA l, s : IF At(inc, l, s) = NaN THEN 0 ELSE 1)

\* SSI._corr_s and SSI._corr_l
CorrS(h, c, off) == CorrOffset(GetBand(h, c, off, "Data"), Ground(h, c, off), 0)
CorrL(h, c, off) == CorrOffset(GetBand(h, c, off, "Data"), Ground(h, c, off), 1)

\* SSI.alignment(align, offset_s, offset_l): the new value of self.offset.
\* An argument is <<>> (None) or <<k>>.
AlignmentOffset(h, c, align, offset_s, offset_l) ==
    IF align \/ offset_s # <<>> \/ offset_l # <<>>
    THEN <<IF offset_s # <<>> THEN offset_s[1] ELSE CorrS(h, c, <<>>),
           IF offset_l # <<>> THEN offset_l[1] ELSE CorrL(h, c, <<>>)>>
    ELSE <<>>

\* _parse that keeps the 1-based index.
Parse_NoShift(index, n) == IF index < 1 \/ index > n THEN -1 ELSE index

\* img._parse(index, n) of an int: the 0-based index, -1 for the IndexError.
Parse(index, n) == IF index < 1 \/ index > n THEN -1 ELSE index - 1

\* An IndexError, a ValueError raised where a pixel value is expected.
IndexError == NaN + 1
ValueError == NaN + 2

\* IMG.__getitem__((s, l)) with two ints: self._data[_parse(l, NL), _parse(s, NS)]
ImgGetItem(a, s, l) ==
    LET i == Parse(l, a.shape[1])
        j == Parse(s, a.shape[2])
    IN IF i \in 0..(a.shape[1] - 1) /\ j \in 0..(a.shape[2] - 1)
       THEN At(a, i, j) ELSE IndexError

\* The arguments of SSI[...]: a string, a tuple (s, l), anything else.  A
\* coordinate is [int |-> isinstance(x, int), v |-> its value].
NoCoord == [int |-> FALSE, v |-> 0]
StrVal(name) == [kind |-> "str", name |-> name, s |-> NoCoord, l |-> NoCoord]
TupleVal(s, l) == [kind |-> "tuple", name |-> "", s |-> s, l |-> l]
OtherVal == [kind |-> "other", name |-> "", s |-> NoCoord, l |-> NoCoord]
NoVal == [kind |-> "none", name |-> "", s |-> NoCoord, l |-> NoCoord]

\* The value a call returns, with the argument of the call.
GotNone == [val |-> NoVal, kind |-> "none", arr |-> NoneArr, s |-> 0, l |-> 0]
GotOffset == [val |-> NoVal, kind |-> "offset", arr |-> NoneArr, s |-> 0, l |-> 0]
GotError(val, e) == [val |-> val, kind |-> e, arr |-> NoneArr, s |-> 0, l |-> 0]
GotBand(val, a) == [val |-> val, kind |-> "band", arr |-> a, s |-> 0, l |-> 0]
GotPixel(val, s, l) == [val |-> val, kind |-> "pixel", arr |-> NoneArr, s |-> s, l |-> l]

\* Off-by-one in the range checks of the setters: 0 accepted, n refused.
NewPixel_ZeroBased(h, val) ==
    IF ~val.s.int THEN GotError(val, "IndexError")
    ELSE IF ~(0 <= val.s.v /\ val.s.v < h.NS) THEN GotError(val, "IndexError")
    ELSE IF ~val.l.int THEN GotError(val, "IndexError")
    ELSE IF ~(0 <= val.l.v /\ val.l.v < h.NL) THEN GotError(val, "IndexError")
    ELSE GotPixel(val, val.s.v, val.l.v)

\* SSIPixel(cube, s, l): the setters of s and l.
NewPixel(h, val) ==
    IF ~val.s.int THEN GotError(val, "IndexError")
    ELSE IF ~(1 <= val.s.v /\ val.s.v <= h.NS) THEN GotError(val, "IndexError")
    ELSE IF ~val.l.int THEN GotError(val, "IndexError")
    ELSE IF ~(1 <= val.l.v /\ val.l.v <= h.NL) THEN GotError(val, "IndexError")
    ELSE GotPixel(val, val.s.v, val.l.v)

\* SSI.__getitem__(val)
SsiGetItem(h, c, off, val) ==
    IF val.kind = "str"
    THEN LET a == GetBand(h, c, off, val.name)
         IN IF a.err # "" THEN GotError(val, a.err) ELSE GotBand(val, a)
    ELSE IF val.kind = "tuple" THEN NewPixel(h, val)
    ELSE GotError(val, "IndexError")

\* The band behind each property of SSIPixel.
FieldLayer ==
    [data |-> "Data", lon_e |-> "Longitude", lat |-> "Latitude",
     inc |-> "Incidence Angle", emi |-> "Emission Angle",
     phase |-> "Phase Angle", res |-> "Pixel Resolution"]

\* SSIPixel.data, .lon_e, .lat, .inc, .emi, .phase, .res of the pixel (s, l);
\* the exception of the band access when it raises.
PixelField(h, c, off, s, l, f) ==
    LET a == GetBand(h, c, off, FieldLayer[f])
    IN IF a.err # "" THEN ValueError ELSE ImgGetItem(a, s, l)

---------------------------------------------------------------------------
(* The decoder as a state machine: a cube object on a file whose header    *)
(* and raster are drawn from the bounded sets below.                       *)

\* 0, 1, ..., n-1: a raster whose pixels are pairwise different.
Ramp(n) == [i \in 0..(n - 1) |-> i]

\* HIGH_REPR_SAT (the type's minimum), the NULL code next to it, small data
\* values, a large value that is no special pixel, and the type's maximum.
RealVals == {-FloatMax, 240 - FloatMax, 0, 7, 5000, FloatMax}

\* Real cubes are written with Base = 0.0 and Multiplier = 1.0.
Headers ==
    {h \in [NB : 1..MaxBands, NL : 1..MaxLines, NS : 1..MaxSamples,
            TL : 1..MaxLines, TS : 1..MaxSamples,
            Type : {"SignedWord", "Real"}, Mult : {1, 2}, Base : {0, 1}] :
        h.Type = "Real" => (h.Mult = 1 /\ h.Base = 0)}

Streams(h) ==
    LET n == h.NB * h.NL * h.NS
    IN {Ramp(n)} \cup
       (IF h.Type = "Real" /\ n <= MaxPix THEN [0..(n - 1) -> RealVals] ELSE {})

NoSSI == offset = <<>> /\ got = GotNone
NoContour == cond = <<>> /\ threshold = 0 /\ contours = <<>>
NoObject == 0
NoCall == [name |-> "", path |-> NoObject, exc |-> ""]
NoFile ==
    filename = NoObject /\ disk = <<>> /\ caches = {} /\ loads = 0 /\ call = NoCall
NoGeo == geoCall = <<>> /\ geo = <<>>
NoLorri == lorri = <<>>

CubeInit ==
    /\ hdr \in Headers
    /\ stream \in Streams(hdr)
    /\ cube = NoneArr
    /\ ret = NoneArr
    /\ NoSSI
    /\ NoContour
    /\ NoFile
    /\ NoGeo
    /\ NoLorri

\* The property ISISCube.cube: the decoded array is stored only when
\* _load_data returns; an exception leaves __cube at None.
CubeGet ==
    /\ LET loaded == IF cube = NoneArr THEN LoadData(hdr, stream) ELSE cube
       IN /\ ret' = loaded
          /\ cube' = IF loaded.err = "" THEN loaded ELSE cube
    /\ UNCHANGED <<hdr, stream>>
    /\ UNCHANGED ssiVars
    /\ UNCHANGED cntrVars
    /\ UNCHANGED fileVars
    /\ UNCHANGED geoVars
    /\ UNCHANGED lorriVars

CubeNext == CubeGet

SpecCube == CubeInit /\ [][CubeNext]_vars

---------------------------------------------------------------------------
(* Claims on the decoder.                                                  *)

\* The tile size tiles the (NL, NS) extent.
TilesExtent(h) == h.NL % h.TL = 0 /\ h.NS % h.TS = 0

\* Position in the file of pixel (b, l, s): bands outermost, then tile rows,
\* then tile columns, row-major inside each tile.
TileIndex(h, b, l, s) ==
    ((b * (h.NL \div h.TL) + l \div h.TL) * (h.NS \div h.TS) + s \div h.TS)
        * h.TL * h.TS
    + (l % h.TL) * h.TS + (s % h.TS)

\* C1: whatever the tile size, an array returned by the decoder has the
\* shape (Bands, Lines, Samples) of the header, and the decoder returns one
\* whenever the tile size tiles the extent.
C1_DecodedShape ==
    /\ ret.err = "" => ret.shape = <<hdr.NB, hdr.NL, hdr.NS>>
    /\ (ret # NoneArr /\ TilesExtent(hdr)) => ret.err = ""

C1_Witness ==
    /\ ret.err = ""
    /\ hdr.TL < hdr.NL /\ hdr.TS < hdr.NS /\ hdr.TL > 1 /\ hdr.TS > 1
    /\ TilesExtent(hdr)
    /\ hdr.NB > 1

\* C2: for a tile size that tiles the extent, pixel [b, l, s] of the decoded
\* array is the (rescaled) pixel of the file at the tile-order position of
\* (b, l, s).
C2_TileRoundTrip ==
    (ret.err = "" /\ TilesExtent(hdr) /\ stream = Ramp(hdr.NB * hdr.NL * hdr.NS)) =>
        \A b \in 0..(hdr.NB - 1), l \in 0..(hdr.NL - 1), s \in 0..(hdr.NS - 1) :
            ret.flat[(b * hdr.NL + l) * hdr.NS + s]
                = stream[TileIndex(hdr, b, l, s)] * hdr.Mult + hdr.Base

C2_Witness ==
    /\ ret.err = ""
    /\ stream = Ramp(hdr.NB * hdr.NL * hdr.NS)
    /\ hdr.NB = 2 /\ hdr.NL = 4 /\ hdr.NS = 4 /\ hdr.TL = 2 /\ hdr.TS = 2
    /\ ret.flat[(1 * 4 + 1) * 4 + 2] = (16 + 4 + 2) * hdr.Mult + hdr.Base

\* A special pixel of the float type: a value within the relative tolerance
\* of the type's minimum or maximum.
IsSentinel(v) == Abs(v) >= FloatMax - FloatMax \div TolInv

\* C3: in a float cube a pixel holding a sentinel value is decoded to NaN or
\* to the maximum of the data, and every other pixel is decoded unchanged.
C3_FloatSanitization ==
    (ret.err = "" /\ hdr.Type = "Real" /\ TilesExtent(hdr)) =>
        \A b \in 0..(hdr.NB - 1), l \in 0..(hdr.NL - 1), s \in 0..(hdr.NS - 1) :
            LET v == stream[TileIndex(hdr, b, l, s)]
                out == ret.flat[(b * hdr.NL + l) * hdr.NS + s]
            IN IF IsSentinel(v) THEN out \in {NaN, NpMax(stream)}
               ELSE out = v

---------------------------------------------------------------------------
(* The SSI object as a state machine.                                      *)

Layers7 ==
    <<"RED", "Phase Angle", "Incidence Angle", "Emission Angle",
      "Longitude", "Latitude", "Pixel Resolution">>
Layers2 == <<"RED", "Incidence Angle">>

\* The header of an SSI cube of nl lines and ns samples with these layers,
\* the first of them the filter.
SsiHeader(nl, ns, names) ==
    [NB |-> Len(names), NL |-> nl, NS |-> ns, TL |-> nl, TS |-> ns,
     Type |-> "Real", Mult |-> 1, Base |-> 0,
     Name |-> names, FilterName |-> names[1]]

Pixels(nl, ns) == (0..(nl - 1)) \X (0..(ns - 1))

\* SSI.alignment(align, offset_s, offset_l), which returns self.offset.
Alignment(align, offset_s, offset_l) ==
    /\ offset' = AlignmentOffset(hdr, cube, align, offset_s, offset_l)
    /\ got' = GotOffset
    /\ UNCHANGED cubeVars
    /\ UNCHANGED cntrVars
    /\ UNCHANGED fileVars
    /\ UNCHANGED geoVars
    /\ UNCHANGED lorriVars

\* SSI[val]
GetItem(val) ==
    /\ got' = SsiGetItem(hdr, cube, offset, val)
    /\ UNCHANGED offset
    /\ UNCHANGED cubeVars
    /\ UNCHANGED cntrVars
    /\ UNCHANGED fileVars
    /\ UNCHANGED geoVars
    /\ UNCHANGED lorriVars

(* Images to align: a data band that is positive on a footprint of at most *)
(* MaxFoot pixels and 0 or NaN elsewhere, and an incidence band defined    *)
(* (not NaN) on the footprint translated by (ds, dl), what falls outside   *)
(* of the image being lost.                                                *)
Footprints(nl, ns) == {f \in SUBSET Pixels(nl, ns) : Cardinality(f) <= MaxFoot}

CorrCube(nl, ns, foot, ds, dl) ==
    Arr(<<2, nl, ns>>,
        [k \in 0..(2 * nl * ns - 1) |->
            LET b == k \div (nl * ns)
                l == (k \div ns) % nl
                s == k % ns
            IN IF b = 0
               THEN IF <<l, s>> \in foot THEN 1 + ((l + s) % 2)
                    ELSE IF (l + s) % 2 = 0 THEN NaN ELSE 0
               ELSE IF <<l - dl, s - ds>> \in foot THEN 20 + l * ns + s
                    ELSE NaN])

CorrInit ==
    /\ \E nl \in 1..MaxImg, ns \in 1..MaxImg :
        \E foot \in Footprints(nl, ns) :
            \E ds \in (1 - ns)..(ns - 1), dl \in (1 - nl)..(nl - 1) :
                /\ hdr = SsiHeader(nl, ns, Layers2)
                /\ cube = CorrCube(nl, ns, foot, ds, dl)
    /\ stream = <<>>
    /\ ret = NoneArr
    /\ offset = <<>>
    /\ got = GotNone
    /\ NoContour
    /\ NoFile
    /\ NoGeo
    /\ NoLorri

CorrAlign == Alignment(TRUE, <<>>, <<>>)
CorrGetNav == GetItem(StrVal("Incidence Angle"))

CorrNext == CorrAlign \/ CorrGetNav

SpecCorr == CorrInit /\ [][CorrNext]_vars

(* SSI images with the seven layers: the pixels of every band are pairwise *)
(* different, and the navigation bands are NaN on the limb pixels.         *)
SsiCube(nl, ns, limb) ==
    Arr(<<7, nl, ns>>,
        [k \in 0..(7 * nl * ns - 1) |->
            LET b == k \div (nl * ns)
                l == (k \div ns) % nl
                s == k % ns
            IN IF b > 0 /\ <<l, s>> \in limb THEN NaN
               ELSE 100 * b + l * ns + s + 1])

OffArgs == {<<>>} \cup {<<k>> : k \in (-MaxOff)..MaxOff}

Coords ==
    {[int |-> TRUE, v |-> k] : k \in 0..(MaxImg + 1)} \cup {[int |-> FALSE, v |-> 1]}

StrVals == {StrVal(n) : n \in {"Data", "Unknown"} \cup {Layers7[i] : i \in 1..7}}

TupleVals == {TupleVal(s, l) : s \in Coords, l \in Coords}

SsiInit ==
    /\ \E nl \in 1..MaxImg, ns \in 1..MaxImg :
        \E limb \in {{}, {<<0, 0>>}} :
            /\ hdr = SsiHeader(nl, ns, Layers7)
            /\ cube = SsiCube(nl, ns, limb)
    /\ stream = <<>>
    /\ ret = NoneArr
    /\ offset = <<>>
    /\ got = GotNone
    /\ NoContour
    /\ NoFile
    /\ NoGeo
    /\ NoLorri

SsiAlign == \E align \in BOOLEAN, offset_s \in OffArgs, offset_l \in OffArgs :
                Alignment(align, offset_s, offset_l)
SsiGet == \E val \in StrVals \cup {OtherVal} : GetItem(val)

SsiNext == SsiAlign \/ SsiGet

SpecSSI == SsiInit /\ [][SsiNext]_vars

(* The pixel accessor, on the same images, aligned by the correlation or   *)
(* by an offset of one pixel.                                              *)
PixOffArgs == {<<>>, <<-1>>, <<1>>}

PixAlign == \E align \in BOOLEAN, offset_s \in PixOffArgs, offset_l \in PixOffArgs :
                Alignment(align, offset_s, offset_l)
PixGet == \E val \in TupleVals : GetItem(val)

PixNext == PixAlign \/ PixGet

SpecPixel == SsiInit /\ [][PixNext]_vars

---------------------------------------------------------------------------
(* Claims on the alignment.                                                *)

ImgPixels == Pixels(hdr.NL, hdr.NS)

\* The decoded band of a layer.
Dec(name) == Band(cube, GetLayer(hdr, name))

\* Footprint of the data: the pixels of positive intensity.
DataFoot ==
    {p \in ImgPixels : At(Dec("Data"), p[1], p[2]) # NaN /\ At(Dec("Data"), p[1], p[2]) > 0}

\* The validity mask: the pixels whose incidence angle is defined.
GroundSet == {p \in ImgPixels : At(Dec("Incidence Angle"), p[1], p[2]) # NaN}

Defined(a) == {p \in ImgPixels : At(a, p[1], p[2]) # NaN}

Translated(F, ds, dl) == {<<p[1] + dl, p[2] + ds>> : p \in F}

\* C4: a mask that covers exactly the footprint of the data gives the
\* offset (0, 0).
C4_UnshiftedIsZero ==
    (offset # <<>> /\ GroundSet = DataFoot) => offset = <<0, 0>>

\* What corr_offset does on a registered pair: (0, 0) when the footprint is
\* not empty, the middle of each axis when it is.
UnshiftedOffset ==
    (offset # <<>> /\ GroundSet = DataFoot) =>
        offset = IF DataFoot # {} THEN <<0, 0>> ELSE <<hdr.NS \div 2, hdr.NL \div 2>>

\* The lags a 'same' correlation of length n can return as the negation of
\* a shift d.
InLagRange(d, n) == -(n \div 2) <= d /\ d <= n - 1 - (n \div 2)

\* C5: for a mask that is the (non-empty) footprint translated by
\* (ds, dl) without clipping, the offset is the negated shift on both axes,
\* and nav_offset with it puts the mask back on the footprint.
C5_RecoversShift ==
    \A ds \in (1 - hdr.NS)..(hdr.NS - 1), dl \in (1 - hdr.NL)..(hdr.NL - 1) :
        (offset # <<>> /\ DataFoot # {} /\ GroundSet = Translated(DataFoot, ds, dl)) =>
            /\ offset = <<-ds, -dl>>
            /\ got.kind = "band" => Defined(got.arr) = DataFoot

\* What corr_offset does on a shifted pair: the offset of an axis of length
\* n is the negation of a shift d with -(n // 2) <= d <= n - 1 - n // 2, and
\* no other shift is ever negated.
RecoveredShift ==
    \A ds \in (1 - hdr.NS)..(hdr.NS - 1), dl \in (1 - hdr.NL)..(hdr.NL - 1) :
        (offset # <<>> /\ DataFoot # {} /\ GroundSet = Translated(DataFoot, ds, dl)) =>
            /\ InLagRange(ds, hdr.NS) => offset[1] = -ds
            /\ InLagRange(dl, hdr.NL) => offset[2] = -dl
            /\ (InLagRange(ds, hdr.NS) /\ InLagRange(dl, hdr.NL) /\ got.kind = "band")
                  => Defined(got.arr) = DataFoot
            /\ InLagRange(-offset[1], hdr.NS) /\ InLagRange(-offset[2], hdr.NL)

\* C6 as stated: the array returned for a band is the decoded band with its
\* content shifted by the offset, NaN where nothing is shifted in, the shift
\* of 'Data' being the opposite of the shift of the other bands.
C6_OffsetShifts_Stated ==
    (got.kind = "band" /\ offset # <<>>) =>
        LET sgn == IF got.val.name = "Data" THEN -1 ELSE 1
            ds == sgn * offset[1]
            dl == sgn * offset[2]
        IN \A p \in ImgPixels :
            At(got.arr, p[1], p[2]) =
                IF <<p[1] - dl, p[2] - ds>> \in ImgPixels
                THEN At(Dec(got.val.name), p[1] - dl, p[2] - ds) ELSE NaN

\* C6, amended: a band other than 'Data' is returned shifted by (ds, dl),
\* NaN where nothing is shifted in; 'Data' is returned in place, NaN on the
\* same border (the pixels the shift of the other bands leaves empty); and
\* an array is returned whenever |ds| <= NS and |dl| <= NL.
C6_OffsetShifts ==
    /\ (got.kind = "band" /\ offset # <<>>) =>
        \A p \in ImgPixels :
            At(got.arr, p[1], p[2]) =
                IF <<p[1] - offset[2], p[2] - offset[1]>> \in ImgPixels
                THEN IF got.val.name = "Data"
                     THEN At(Dec(got.val.name), p[1], p[2])
                     ELSE At(Dec(got.val.name), p[1] - offset[2], p[2] - offset[1])
                ELSE NaN
    /\ (/\ got.val.kind = "str" /\ GetLayer(hdr, got.val.name) >= 0
        /\ offset # <<>>
        /\ Abs(offset[1]) <= hdr.NS /\ Abs(offset[2]) <= hdr.NL) => got.kind = "band"

C6_Witness ==
    /\ got.kind = "band"
    /\ got.val.name = "Data"
    /\ offset = <<1, -1>>
    /\ hdr.NL = 3 /\ hdr.NS = 3
    /\ At(got.arr, 0, 1) = At(Dec("Data"), 0, 1)
    /\ At(got.arr, 0, 0) = NaN

\* The array returned for a band is not the decoded band.
Differs(g) == g.kind = "band" /\ g.arr # Dec(g.val.name)

IsIntensity(name) == GetLayer(hdr, name) = GetLayer(hdr, "Data")

\* C7 as stated: under one offset, the arrays returned for the intensity
\* band and for a navigation band do not both differ from the decoded
\* bands.
C7_NeverBoth_Stated ==
    [][(offset' = offset /\ Differs(got) /\ Differs(got'))
            => (IsIntensity(got.val.name) <=> IsIntensity(got'.val.name))]_vars

\* C7, amended: every named access applies exactly one of the two
\* transformations, chosen by the name: the edge mask (data_offset) for
\* 'Data', the translation (nav_offset) for every other name.
C7_OneTransformPerAccess ==
    (got.kind = "band" /\ offset # <<>>) =>
        got.arr = IF got.val.name = "Data"
                  THEN DataOffset(Dec(got.val.name), offset[1], offset[2])
                  ELSE NavOffset(Dec(got.val.name), offset[1], offset[2])

C7_Witness ==
    /\ got.kind = "band"
    /\ got.val.name = "Data"
    /\ offset = <<1, 0>>
    /\ hdr.NS = 3
    /\ Differs(got)
    /\ GetBand(hdr, cube, offset, "Latitude") # Dec("Latitude")

\* The positions of an array: NaN, and those a translation by the offset
\* brings nothing to.
NaNs(a) == {p \in ImgPixels : At(a, p[1], p[2]) = NaN}
Exposed == {p \in ImgPixels : <<p[1] - offset[2], p[2] - offset[1]>> \notin ImgPixels}

\* C21: for an offset (ds, dl) with |ds| <= NS and |dl| <= NL, the positions
\* data_offset fills with NaN are the positions nav_offset leaves NaN, its
\* exposed border; outside of them data_offset leaves data[l, s] in place and
\* nav_offset puts nav[l - dl, s - ds] at [l, s].  The band just returned is
\* one of the two arrays, the other is the other function on the same band.
C21_OffsetsReconcile ==
    (/\ got.kind = "band" /\ offset # <<>>
     /\ Abs(offset[1]) <= hdr.NS /\ Abs(offset[2]) <= hdr.NL) =>
        LET src == Dec(got.val.name)
            masked == IF got.val.name = "Data" THEN got.arr
                      ELSE DataOffset(src, offset[1], offset[2])
            moved == IF got.val.name = "Data"
                     THEN NavOffset(src, offset[1], offset[2]) ELSE got.arr
        IN /\ masked.err = "" /\ masked.shape = src.shape
           /\ moved.err = "" /\ moved.shape = src.shape
           /\ NaNs(src) = {} => (NaNs(masked) = NaNs(moved) /\ NaNs(moved) = Exposed)
           /\ Exposed \subseteq NaNs(masked) /\ Exposed \subseteq NaNs(moved)
           /\ \A p \in ImgPixels \ Exposed :
                 /\ At(masked, p[1], p[2]) = At(src, p[1], p[2])
                 /\ At(moved, p[1], p[2]) = At(src, p[1] - offset[2], p[2] - offset[1])

\* A navigation band has been returned under the offset (-1, 1).
C21_Witness ==
    /\ got.kind = "band" /\ got.val.name = "Latitude"
    /\ offset = <<-1, 1>>
    /\ hdr.NL = 2 /\ hdr.NS = 3
    /\ NaNs(Dec("Latitude")) = {}
    /\ NaNs(got.arr) = {<<0, 0>>, <<0, 1>>, <<0, 2>>, <<1, 2>>}
    /\ NaNs(DataOffset(Dec("Data"), -1, 1)) = NaNs(got.arr)
    /\ At(got.arr, 1, 0) = At(Dec("Latitude"), 0, 1)

\* C27: the offset of the correlation of profiles of length N is an integer
\* of N // 2 - (N - 1) .. N // 2, smaller in magnitude than the extent of
\* the array, and data_offset and nav_offset under it return an array of
\* the shape of the image without raising.
C27_OffsetWithinExtent ==
    (offset # <<>>) =>
        /\ offset[1] \in (hdr.NS \div 2 - (hdr.NS - 1))..(hdr.NS \div 2)
        /\ offset[2] \in (hdr.NL \div 2 - (hdr.NL - 1))..(hdr.NL \div 2)
        /\ Abs(offset[1]) < hdr.NS /\ Abs(offset[2]) < hdr.NL
        /\ \A b \in 0..1 :
              /\ NavOffset(Band(cube, b), offset[1], offset[2]).err = ""
              /\ NavOffset(Band(cube, b), offset[1], offset[2]).shape = <<hdr.NL, hdr.NS>>
              /\ DataOffset(Band(cube, b), offset[1], offset[2]).err = ""
              /\ DataOffset(Band(cube, b), offset[1], offset[2]).shape = <<hdr.NL, hdr.NS>>
        /\ got.kind # "offset" => (got.kind = "band" /\ got.arr.shape = <<hdr.NL, hdr.NS>>)

\* The correlation has given the lowest offset of both ranges, and the
\* navigation has been read under it.
C27_Witness ==
    /\ hdr.NS = 3 /\ hdr.NL = 3
    /\ offset = <<-1, -1>>
    /\ got.kind = "band"
    /\ At(got.arr, 0, 0) = At(Band(cube, 1), 1, 1)
    /\ At(got.arr, 2, 2) = NaN

\* C29: the band read under the name of the filter is equal to the band
\* read under 'Data', whatever the offset.
C29_DataUnderBothNames ==
    (got.kind = "band" /\ got.val.name = hdr.FilterName) =>
        got.arr = GetBand(hdr, cube, offset, "Data")

\* Without offset, or under the offset (0, 0), both names give the same
\* array.
SameWithoutShift ==
    (got.kind = "band" /\ got.val.name = hdr.FilterName /\ offset \in {<<>>, <<0, 0>>}) =>
        got.arr = GetBand(hdr, cube, offset, "Data")

\* Under an offset the name of the filter gives the band translated as the
\* navigation is.
FilterIsTranslated ==
    (got.kind = "band" /\ got.val.name = hdr.FilterName /\ offset # <<>>) =>
        got.arr = NavOffset(Dec("Data"), offset[1], offset[2])

\* The band read under the name of the filter, under the offset (1, 0): its
\* second sample is the first of the file, where 'Data' keeps the second.
FilterMoved ==
    /\ got.kind = "band" /\ got.val.name = hdr.FilterName
    /\ offset = <<1, 0>> /\ hdr.NS = 2 /\ hdr.NL = 1
    /\ At(got.arr, 0, 1) = At(Dec("Data"), 0, 0)
    /\ At(GetBand(hdr, cube, offset, "Data"), 0, 1) = At(Dec("Data"), 0, 1)

---------------------------------------------------------------------------
(* Claims on the pixel accessor.                                           *)

C9_OneBased ==
    got.kind = "pixel" =>
        \A f \in DOMAIN FieldLayer :
            LET a == GetBand(hdr, cube, offset, FieldLayer[f])
            IN a.err = "" =>
                PixelField(hdr, cube, offset, got.s, got.l, f) = At(a, got.l - 1, got.s - 1)

C9_Witness ==
    /\ got.kind = "pixel"
    /\ got.s = 3 /\ got.l = 2
    /\ hdr.NS = 3 /\ hdr.NL = 2
    /\ offset = <<1, 1>>
    /\ PixelField(hdr, cube, offset, got.s, got.l, "data") = 6
    /\ PixelField(hdr, cube, offset, got.s, got.l, "lat") = At(Dec("Latitude"), 0, 1)
    /\ At(Dec("Latitude"), 0, 1) # NaN

---------------------------------------------------------------------------
(* geometry/contour.py: edges, ls_contour, ls_contours.                    *)

MaxMask == 4        \* lines and samples of a mask holding one rectangle
MaxCells == 12      \* pixels of a mask of any content
MaxThreshold == 3   \* threshold given to ls_contours

Count(a) == Cardinality({k \in DOMAIN a.flat : a.flat[k]})

\* The pixel [l, s] of a mask inside its border of invalid pixels.
Padded(a, l, s) ==
    IF 0 <= l /\ l < a.shape[1] /\ 0 <= s /\ s < a.shape[2] THEN At(a, l, s) ELSE FALSE

\* edges without the border of invalid pixels around the mask.
Edges_NoBorder(c) ==
    Arr2(c.shape[1], c.shape[2],
         LAMBDA l, s : /\ At(c, l, s)
                       /\ \/ (l > 0 /\ ~At(c, l - 1, s))
                          \/ (s < c.shape[2] - 1 /\ ~At(c, l, s + 1))
                          \/ (l < c.shape[1] - 1 /\ ~At(c, l + 1, s))
                          \/ (s > 0 /\ ~At(c, l, s - 1)))

\* edges that keeps the mask as it is.
Edges_Filled(c) == c

\* edges(cond): the valid pixels with an invalid pixel above, right, below
\* or left.
Edges(c) ==
    Arr2(c.shape[1], c.shape[2],
         LAMBDA l, s : /\ At(c, l, s)
                       /\ \/ ~Padded(c, l - 1, s)
                          \/ ~Padded(c, l, s + 1)
                          \/ ~Padded(c, l + 1, s)
                          \/ ~Padded(c, l, s - 1))

\* The directions without the rotation: the search always restarts from the
\* top left.
DIRECTIONS_NoRotation ==
    [i \in 1..8 |->
        [dl |-> <<-1, -1, -1, 0, 1, 1, 1, 0>>[i],
         ds |-> <<-1, 0, 1, 1, 1, 0, -1, -1>>[i],
         v |-> <<0, 1, 2, 3, 4, 5, 6, 7>>]]

DIRECTIONS ==
    << [dl |-> -1, ds |-> -1, v |-> <<5, 6, 7, 0, 1, 2, 3, 4>>],
       [dl |-> -1, ds |-> 0, v |-> <<6, 7, 0, 1, 2, 3, 4, 5>>],
       [dl |-> -1, ds |-> 1, v |-> <<7, 0, 1, 2, 3, 4, 5, 6>>],
       [dl |-> 0, ds |-> 1, v |-> <<0, 1, 2, 3, 4, 5, 6, 7>>],
       [dl |-> 1, ds |-> 1, v |-> <<1, 2, 3, 4, 5, 6, 7, 0>>],
       [dl |-> 1, ds |-> 0, v |-> <<2, 3, 4, 5, 6, 7, 0, 1>>],
       [dl |-> 1, ds |-> -1, v |-> <<3, 4, 5, 6, 7, 0, 1, 2>>],
       [dl |-> 0, ds |-> -1, v |-> <<4, 5, 6, 7, 0, 1, 2, 3>>] >>

\* `for dl, ds, v in DIRECTIONS[v]`: the first direction of v that leads to
\* a pixel of the contour, k the rows already tried; v is rebound on every
\* row, so it ends as the v of the row taken, or of the last row.
RECURSIVE Scan(_, _, _, _, _)
Scan(cntr, l, s, v, k) ==
    LET d == DIRECTIONS[v[k] + 1]
    IN IF Padded(cntr, l + d.dl, s + d.ds)
       THEN [l |-> l + d.dl, s |-> s + d.ds, v |-> d.v, moved |-> TRUE]
       ELSE IF k = 8 THEN [l |-> l, s |-> s, v |-> d.v, moved |-> FALSE]
       ELSE Scan(cntr, l, s, v, k + 1)

\* The walk that does not save the first point again when it comes back.
RECURSIVE Walk_NoClose(_, _, _, _, _, _, _, _, _)
Walk_NoClose(cntr, l0, s0, l, s, v, lines, samples, n) ==
    IF n = 0 THEN [err |-> "ValueError", lines |-> lines, samples |-> samples]
    ELSE LET m == Scan(cntr, l, s, v, 1)
         IN IF m.l = l0 /\ m.s = s0
            THEN [err |-> "", lines |-> lines, samples |-> samples]
            ELSE Walk_NoClose(cntr, l0, s0, m.l, m.s, m.v,
                              Append(lines, m.l), Append(samples, m.s), n - 1)

\* `for _ in range(npts)` with n iterations left.
RECURSIVE Walk(_, _, _, _, _, _, _, _, _)
Walk(cntr, l0, s0, l, s, v, lines, samples, n) ==
    IF n = 0 THEN [err |-> "ValueError", lines |-> lines, samples |-> samples]
    ELSE LET m == Scan(cntr, l, s, v, 1)
             ls == IF m.moved THEN Append(lines, m.l) ELSE lines
             ss == IF m.moved THEN Append(samples, m.s) ELSE samples
         IN IF m.l = l0 /\ m.s = s0
            THEN [err |-> "", lines |-> ls, samples |-> ss]
            ELSE Walk(cntr, l0, s0, m.l, m.s, m.v, ls, ss, n - 1)

\* ls_contour that stops after as many steps as the mask has pixels.
LsContour_HalfBudget(cntr) ==
    IF Count(cntr) = 0
    THEN [err |-> "ValueError", lines |-> <<>>, samples |-> <<>>, cntr |-> cntr]
    ELSE LET k0 == CHOOSE k \in DOMAIN cntr.flat :
                       cntr.flat[k] /\ \A j \in DOMAIN cntr.flat : cntr.flat[j] => k <= j
             l0 == k0 \div cntr.shape[2]
             s0 == k0 % cntr.shape[2]
             w == Walk(cntr, l0, s0, l0, s0, <<0, 1, 2, 3, 4, 5, 6, 7>>,
                       <<l0>>, <<s0>>, Count(cntr))
             found == {w.lines[i] * cntr.shape[2] + w.samples[i] : i \in DOMAIN w.lines}
         IN [err |-> w.err, lines |-> w.lines, samples |-> w.samples,
             cntr |-> Arr(cntr.shape,
                          [k \in DOMAIN cntr.flat |-> cntr.flat[k] /\ k \notin found])]

\* ls_contour that removes its first pixel only.
LsContour_FirstOnly(cntr) ==
    IF Count(cntr) = 0
    THEN [err |-> "ValueError", lines |-> <<>>, samples |-> <<>>, cntr |-> cntr]
    ELSE LET k0 == CHOOSE k \in DOMAIN cntr.flat :
                       cntr.flat[k] /\ \A j \in DOMAIN cntr.flat : cntr.flat[j] => k <= j
             l0 == k0 \div cntr.shape[2]
             s0 == k0 % cntr.shape[2]
             w == Walk(cntr, l0, s0, l0, s0, <<0, 1, 2, 3, 4, 5, 6, 7>>,
                       <<l0>>, <<s0>>, 2 * Count(cntr))
         IN [err |-> w.err, lines |-> w.lines, samples |-> w.samples,
             cntr |-> Arr(cntr.shape,
                          [k \in DOMAIN cntr.flat |-> cntr.flat[k] /\ k # k0])]

\* ls_contour(cntr): lines, samples and the contour without them.
LsContour(cntr) ==
    IF Count(cntr) = 0
    THEN [err |-> "ValueError", lines |-> <<>>, samples |-> <<>>, cntr |-> cntr]
    ELSE LET k0 == CHOOSE k \in DOMAIN cntr.flat :
                       cntr.flat[k] /\ \A j \in DOMAIN cntr.flat : cntr.flat[j] => k <= j
             l0 == k0 \div cntr.shape[2]
             s0 == k0 % cntr.shape[2]
             w == Walk(cntr, l0, s0, l0, s0, <<0, 1, 2, 3, 4, 5, 6, 7>>,
                       <<l0>>, <<s0>>, 2 * Count(cntr))
             found == {w.lines[i] * cntr.shape[2] + w.samples[i] : i \in DOMAIN w.lines}
         IN [err |-> w.err, lines |-> w.lines, samples |-> w.samples,
             cntr |-> Arr(cntr.shape,
                          [k \in DOMAIN cntr.flat |-> cntr.flat[k] /\ k \notin found])]

\* `for _ in range(np.sum(cntr))` with n iterations left.
RECURSIVE Search(_, _, _, _)
Search(cntr, thr, ls, n) ==
    IF n = 0 THEN [err |-> "ValueError", ls |-> <<>>]
    ELSE LET c == LsContour(cntr)
             kept == IF Len(c.lines) > thr
                     THEN Append(ls, [lines |-> c.lines, samples |-> c.samples])
                     ELSE ls
         IN IF c.err # "" THEN [err |-> c.err, ls |-> <<>>]
            ELSE IF Count(c.cntr) = 0 \/ Count(c.cntr) < thr
                 THEN [err |-> "", ls |-> kept]
                 ELSE Search(c.cntr, thr, kept, n - 1)

\* ls_contours with one iteration less than the mask has pixels.
LsContours_ShortBudget(cntr, thr) == Search(cntr, thr, <<>>, Count(cntr) - 1)

\* ls_contours(cntr, threshold)
LsContours(cntr, thr) == Search(cntr, thr, <<>>, Count(cntr))

NotTraced == [err |-> "NotTraced", ls |-> <<>>]

\* The masks of nl x ns pixels that hold one filled rectangle.
RectMasks(nl, ns) ==
    {Arr2(nl, ns, LAMBDA l, s : l1 <= l /\ l <= l2 /\ s1 <= s /\ s <= s2) :
        <<l1, l2, s1, s2>> \in {q \in (0..(nl - 1)) \X (0..(nl - 1)) \X (0..(ns - 1)) \X (0..(ns - 1)) :
                                   q[1] <= q[2] /\ q[3] <= q[4]}}

AnyMasks(nl, ns) == {Arr(<<nl, ns>>, f) : f \in [0..(nl * ns - 1) -> BOOLEAN]}

ContourInit ==
    /\ \E nl \in 1..MaxMask, ns \in 1..MaxMask :
        \/ cond \in RectMasks(nl, ns)
        \/ nl * ns <= MaxCells /\ cond \in AnyMasks(nl, ns)
    /\ threshold \in 0..MaxThreshold
    /\ contours = NotTraced
    /\ hdr = SsiHeader(1, 1, Layers2)
    /\ stream = <<>>
    /\ cube = NoneArr
    /\ ret = NoneArr
    /\ NoSSI
    /\ NoFile
    /\ NoGeo
    /\ NoLorri

\* ls_contours(edges(cond), threshold)
TraceAll ==
    /\ contours = NotTraced
    /\ contours' = LsContours(Edges(cond), threshold)
    /\ UNCHANGED <<cond, threshold, cubeVars, ssiVars, fileVars, geoVars, lorriVars>>

ContourNext == TraceAll

SpecContour == ContourInit /\ [][ContourNext]_vars

---------------------------------------------------------------------------
(* Claim on the contours.                                                  *)

Valid == {p \in Pixels(cond.shape[1], cond.shape[2]) : At(cond, p[1], p[2])}

\* The lines and the samples of the valid pixels.
Lines == {p[1] : p \in Valid}
Samples == {p[2] : p \in Valid}

IsRectangle ==
    /\ Valid # {}
    /\ \A l \in Lines, s \in Samples : <<l, s>> \in Valid
    /\ \A l \in Lines, m \in Lines, k \in 0..MaxMask : (l <= k /\ k <= m) => k \in Lines
    /\ \A s \in Samples, t \in Samples, k \in 0..MaxMask : (s <= k /\ k <= t) => k \in Samples

\* The pixels of the rectangle on its first or last line or sample.
Perimeter ==
    {p \in Valid : \/ \A l \in Lines : p[1] <= l
                   \/ \A l \in Lines : p[1] >= l
                   \/ \A s \in Samples : p[2] <= s
                   \/ \A s \in Samples : p[2] >= s}

Points(c) == {<<c.lines[i], c.samples[i]>> : i \in DOMAIN c.lines}

Closed(c) ==
    /\ c.lines[1] = c.lines[Len(c.lines)]
    /\ c.samples[1] = c.samples[Len(c.samples)]

\* C10 as stated: a single filled rectangle, under a threshold below the
\* number of pixels of its perimeter, has exactly one contour, closed, of as
\* many points as the perimeter has pixels.
C10_RectangleContour_Stated ==
    (contours # NotTraced /\ IsRectangle /\ threshold < Cardinality(Perimeter)) =>
        /\ contours.err = ""
        /\ Len(contours.ls) = 1
        /\ Len(contours.ls[1].lines) = Cardinality(Perimeter)
        /\ Closed(contours.ls[1])

\* C10, amended: the contour is exactly one, closed, and goes through every
\* pixel of the perimeter and no other; its first point is repeated as its
\* last, so it has one point more than the perimeter has pixels when the
\* rectangle is at least 2 x 2, and 2 n - 1 points when the rectangle is a
\* row or a column of n pixels.
C10_RectangleContour ==
    (contours # NotTraced /\ IsRectangle /\ threshold < Cardinality(Perimeter)) =>
        /\ contours.err = ""
        /\ Len(contours.ls) = 1
        /\ Len(contours.ls[1].samples) = Len(contours.ls[1].lines)
        /\ Len(contours.ls[1].lines) =
              IF Cardinality(Lines) >= 2 /\ Cardinality(Samples) >= 2
              THEN Cardinality(Perimeter) + 1
              ELSE 2 * Cardinality(Perimeter) - 1
        /\ Points(contours.ls[1]) = Perimeter
        /\ Closed(contours.ls[1])

C10_Witness ==
    /\ contours # NotTraced
    /\ IsRectangle
    /\ Cardinality(Lines) = 3 /\ Cardinality(Samples) = 4
    /\ cond.shape = <<4, 4>>
    /\ threshold = 3
    /\ Len(contours.ls) = 1
    /\ Len(contours.ls[1].lines) = 11

\* Every contour of the mask: what ls_contours finds under the threshold 0,
\* which keeps every contour and stops on the empty mask only.
AllContours == LsContours(Edges(cond), 0)

\* The threshold is greater than the length of any contour of the mask.
NoLongContour ==
    \/ Count(Edges(cond)) = 0
    \/ /\ AllContours.err = ""
       /\ \A i \in DOMAIN AllContours.ls : threshold > Len(AllContours.ls[i].lines)

\* C11: every contour ls_contours returns has strictly more points than the
\* threshold, and under a threshold greater than the length of any contour
\* of the mask it returns the empty list.
C11_KeepsLongContours ==
    contours # NotTraced =>
        /\ \A i \in DOMAIN contours.ls : Len(contours.ls[i].lines) > threshold
        /\ NoLongContour => (contours.err = "" /\ contours.ls = <<>>)

\* What ls_contours does on a mask with at least one valid pixel.
KeepsLongContours ==
    (contours # NotTraced /\ Count(Edges(cond)) > 0) =>
        /\ \A i \in DOMAIN contours.ls : Len(contours.ls[i].lines) > threshold
        /\ NoLongContour => (contours.err = "" /\ contours.ls = <<>>)

\* ls_contours raises on the mask without any valid pixel, and on no other.
RaisesOnEmptyOnly ==
    contours # NotTraced => (contours.err # "" <=> Count(Edges(cond)) = 0)

\* The steps of a contour: from each point to the next.
StepL(c, i) == Abs(c.lines[i + 1] - c.lines[i])
StepS(c, i) == Abs(c.samples[i + 1] - c.samples[i])

\* C12 as stated: the successive points of every contour differ by exactly 1
\* in exactly one of line and sample, and the contour is closed.
C12_FourConnected_Stated ==
    contours # NotTraced =>
        \A k \in DOMAIN contours.ls :
            /\ \A i \in 1..(Len(contours.ls[k].lines) - 1) :
                  StepL(contours.ls[k], i) + StepS(contours.ls[k], i) = 1
            /\ Closed(contours.ls[k])

\* C12, amended: the successive points of every contour are neighbours in
\* one of the 8 directions (they differ by at most 1 in line and in sample,
\* and are not the same point), and the contour is closed.
C12_EightConnected ==
    contours # NotTraced =>
        \A k \in DOMAIN contours.ls :
            /\ Len(contours.ls[k].lines) = Len(contours.ls[k].samples)
            /\ \A i \in 1..(Len(contours.ls[k].lines) - 1) :
                  /\ StepL(contours.ls[k], i) <= 1
                  /\ StepS(contours.ls[k], i) <= 1
                  /\ StepL(contours.ls[k], i) + StepS(contours.ls[k], i) >= 1
            /\ Closed(contours.ls[k])

C12_Witness ==
    /\ contours # NotTraced
    /\ Len(contours.ls) = 2
    /\ Len(contours.ls[1].lines) = 5
    /\ StepL(contours.ls[1], 1) = 1 /\ StepS(contours.ls[1], 1) = 1
    /\ StepL(contours.ls[1], 2) + StepS(contours.ls[1], 2) = 1
    /\ Closed(contours.ls[1])

\* The value of the mask at [l, s], 0 outside of the array.
MaskValue(l, s) == IF Padded(cond, l, s) THEN 1 ELSE 0

\* The top, right, bottom and left neighbours of a pixel.
Neighbours4(p) ==
    {<<p[1] - 1, p[2]>>, <<p[1], p[2] + 1>>, <<p[1] + 1, p[2]>>, <<p[1], p[2] - 1>>}

MaskPixels == Pixels(cond.shape[1], cond.shape[2])

\* C13 as stated: edges(mask) is true at exactly the pixels whose value is
\* higher than the value of each of their 4 neighbours, 0 outside the array.
C13_EdgesAllNeighbours_Stated ==
    \A p \in MaskPixels :
        At(Edges(cond), p[1], p[2]) <=>
            \A q \in Neighbours4(p) : MaskValue(p[1], p[2]) > MaskValue(q[1], q[2])

\* C13, amended: edges(mask) is true at exactly the pixels whose value is
\* higher than the value of at least one of their 4 neighbours, 0 outside
\* the array.
C13_EdgesSomeNeighbour ==
    /\ Edges(cond).shape = cond.shape
    /\ \A p \in MaskPixels :
        At(Edges(cond), p[1], p[2]) <=>
            \E q \in Neighbours4(p) : MaskValue(p[1], p[2]) > MaskValue(q[1], q[2])

\* A filled 3 x 3 mask in a 4 x 4 array, traced: its centre is not an edge,
\* its corners and sides are.
C13_Witness ==
    /\ contours # NotTraced
    /\ cond.shape = <<4, 4>>
    /\ Valid = (0..2) \X (1..3)
    /\ ~At(Edges(cond), 1, 2)
    /\ At(Edges(cond), 0, 1) /\ At(Edges(cond), 1, 1) /\ At(Edges(cond), 2, 3)
    /\ Count(Edges(cond)) = 8

\* Two pixels next to each other: by a side, or by a side or a corner.
Adjacent(p, q, corners) ==
    /\ p # q
    /\ Abs(p[1] - q[1]) <= 1 /\ Abs(p[2] - q[2]) <= 1
    /\ corners \/ Abs(p[1] - q[1]) + Abs(p[2] - q[2]) = 1

\* The pixels of S joined to those of C.
RECURSIVE Grow(_, _, _)
Grow(S, C, corners) ==
    LET N == {q \in S \ C : \E p \in C : Adjacent(p, q, corners)}
    IN IF N = {} THEN C ELSE Grow(S, C \cup N, corners)

\* The invalid pixels, with the border of invalid pixels around the mask.
Outside == (((-1)..cond.shape[1]) \X ((-1)..cond.shape[2])) \ Valid

\* The valid pixels are one region, joined by sides, without a hole.
SimplyConnected ==
    /\ Valid # {}
    /\ Grow(Valid, {CHOOSE p \in Valid : TRUE}, FALSE) = Valid
    /\ Grow(Outside, {<<-1, -1>>}, TRUE) = Outside

\* Every valid pixel is in a square of 2 x 2 valid pixels.
Thick ==
    \A p \in Valid : \E a \in {-1, 0}, b \in {-1, 0} :
        \A i \in {0, 1}, j \in {0, 1} : <<p[1] + a + i, p[2] + b + j>> \in Valid

Pt(c, i) == <<c.lines[i], c.samples[i]>>
NoBacktrack(c) == \A i \in 1..(Len(c.lines) - 2) : Pt(c, i + 2) # Pt(c, i)
Simple(c) ==
    /\ Closed(c)
    /\ \A i, j \in 1..(Len(c.lines) - 1) : i # j => Pt(c, i) # Pt(c, j)

\* The first call of ls_contour in ls_contours(edges(cond), threshold).
FirstContour == LsContour(Edges(cond))

\* C22 as stated: on the edge mask of a simply-connected region no step of
\* the walk returns to the pixel the walk just came from, and the contour is
\* a simple closed polygon: no pixel but the first, which is the last, occurs
\* twice in it.
C22_SimplePolygon_Stated ==
    (contours # NotTraced /\ SimplyConnected) =>
        /\ FirstContour.err = ""
        /\ NoBacktrack(FirstContour)
        /\ Simple(FirstContour)

\* C22, amended: the same of a simply-connected region that has no part one
\* pixel wide, every pixel of it being in a square of 2 x 2 of its pixels.
C22_SimplePolygon ==
    (contours # NotTraced /\ SimplyConnected /\ Thick) =>
        /\ FirstContour.err = ""
        /\ NoBacktrack(FirstContour)
        /\ Simple(FirstContour)

\* On a row of three pixels the walk comes back over the middle pixel.
RowOfThree ==
    (contours # NotTraced /\ cond.shape = <<1, 3>> /\ Cardinality(Valid) = 3) =>
        /\ FirstContour.lines = <<0, 0, 0, 0, 0>>
        /\ FirstContour.samples = <<0, 1, 2, 1, 0>>

\* A region of 3 x 3 pixels without its last pixel has been traced.
C22_Witness ==
    /\ contours # NotTraced /\ contours.err = "" /\ threshold = 0
    /\ cond.shape = <<3, 3>>
    /\ Valid = Pixels(3, 3) \ {<<2, 2>>}
    /\ SimplyConnected /\ Thick /\ ~IsRectangle
    /\ Len(contours.ls) = 1
    /\ Points(contours.ls[1]) = Valid \ {<<1, 1>>}
    /\ Simple(contours.ls[1])


(* ls_contour on its own, on any mask, next to ls_contours.                *)

\* ls_contour(cond): the contour and the mask it returns.
TraceOne ==
    /\ contours = NotTraced
    /\ LET c == LsContour(cond)
       IN contours' = [err |-> c.err,
                       ls |-> <<[lines |-> c.lines, samples |-> c.samples]>>,
                       cntr |-> c.cntr]
    /\ UNCHANGED <<cond, threshold, cubeVars, ssiVars, fileVars, geoVars, lorriVars>>

TraceNext == TraceOne \/ TraceAll

SpecTrace == ContourInit /\ [][TraceNext]_vars

TracedOne == contours # NotTraced /\ "cntr" \in DOMAIN contours
TracedAll == contours # NotTraced /\ "cntr" \notin DOMAIN contours

\* The true pixels of a mask.
TruePixels(a) == {p \in Pixels(a.shape[1], a.shape[2]) : At(a, p[1], p[2])}

\* C23: ls_contours on an edge mask without any true pixel returns the empty
\* list and does not raise.
C23_EmptyMask ==
    (TracedAll /\ TruePixels(Edges(cond)) = {}) =>
        (contours.err = "" /\ contours.ls = <<>>)

\* What ls_contours does on the edge mask without any true pixel.
EmptyMaskRaises ==
    (TracedAll /\ TruePixels(Edges(cond)) = {}) => contours.err = "ValueError"

\* C24: on every mask with a true pixel ls_contour comes back to its first
\* pixel, the first true pixel in row-major order, within twice as many steps
\* as the mask has true pixels, and does not raise.
C24_WalkCloses ==
    (TracedOne /\ Valid # {}) =>
        /\ contours.err = ""
        /\ Closed(contours.ls[1])
        /\ Pt(contours.ls[1], 1) \in Valid
        /\ \A p \in Valid : \/ p[1] > contours.ls[1].lines[1]
                            \/ /\ p[1] = contours.ls[1].lines[1]
                               /\ p[2] >= contours.ls[1].samples[1]
        /\ Len(contours.ls[1].lines) - 1 <= 2 * Cardinality(Valid)

\* The cross of five pixels has been walked: in four steps, around its
\* centre.
C24_Witness ==
    /\ TracedOne /\ contours.err = ""
    /\ cond.shape = <<3, 3>>
    /\ Valid = {<<0, 1>>, <<1, 0>>, <<1, 1>>, <<1, 2>>, <<2, 1>>}
    /\ contours.ls[1].lines = <<0, 1, 2, 1, 0>>
    /\ contours.ls[1].samples = <<1, 2, 1, 0, 1>>

\* The masks handed to ls_contour by the loop of ls_contours, one for each
\* iteration, n iterations being left.
RECURSIVE Rounds(_, _, _)
Rounds(cntr, thr, n) ==
    IF n = 0 \/ Count(cntr) = 0 THEN <<>>
    ELSE LET c == LsContour(cntr)
         IN IF c.err # "" \/ Count(c.cntr) = 0 \/ Count(c.cntr) < thr
            THEN <<cntr>>
            ELSE <<cntr>> \o Rounds(c.cntr, thr, n - 1)

\* C25: on an edge mask with a true pixel, under any threshold, ls_contours
\* returns without raising after at most as many iterations as the mask has
\* true pixels, each of them removing at least the first pixel of its mask.
C25_TraceAllTerminates ==
    (TracedAll /\ TruePixels(Edges(cond)) # {}) =>
        LET n == Count(Edges(cond))
            rounds == Rounds(Edges(cond), threshold, n)
        IN /\ contours.err = ""
           /\ Len(contours.ls) <= Len(rounds)
           /\ Len(rounds) <= n
           /\ \A i \in 1..Len(rounds) :
                 LET c == LsContour(rounds[i])
                 IN /\ c.err = ""
                    /\ Pt(c, 1) \in TruePixels(rounds[i]) \ TruePixels(c.cntr)
                    /\ Count(c.cntr) < Count(rounds[i])

\* Four pixels apart from each other have been traced in four iterations.
C25_Witness ==
    /\ TracedAll /\ contours.err = "" /\ threshold = 0
    /\ cond.shape = <<3, 3>>
    /\ Valid = {<<0, 0>>, <<0, 2>>, <<2, 0>>, <<2, 2>>}
    /\ Len(contours.ls) = 4
    /\ Len(Rounds(Edges(cond), threshold, 4)) = 4

\* C26: ls_contour removes from the mask the pixels of the contour it
\* returns and no other; every point of every contour ls_contours returns is
\* a true pixel of the edge mask it was given, and no pixel is in two of the
\* contours.
C26_RemovesContour ==
    /\ (TracedOne /\ contours.err = "") =>
          /\ contours.cntr.shape = cond.shape
          /\ TruePixels(contours.cntr) = Valid \ Points(contours.ls[1])
          /\ Points(contours.ls[1]) \subseteq Valid
    /\ (TracedAll /\ contours.err = "") =>
          /\ \A k \in DOMAIN contours.ls :
                Points(contours.ls[k]) \subseteq TruePixels(Edges(cond))
          /\ \A j, k \in DOMAIN contours.ls :
                j # k => Points(contours.ls[j]) \cap Points(contours.ls[k]) = {}

\* Two rows apart from each other have been traced as two contours.
C26_Witness ==
    /\ TracedAll /\ contours.err = "" /\ threshold = 0
    /\ cond.shape = <<3, 2>>
    /\ Valid = {<<0, 0>>, <<0, 1>>, <<2, 0>>, <<2, 1>>}
    /\ Len(contours.ls) = 2
    /\ Points(contours.ls[1]) = {<<0, 0>>, <<0, 1>>}
    /\ Points(contours.ls[2]) = {<<2, 0>>, <<2, 1>>}


(* ssi/lorri.py: the LORRI camera, an SSI whose I/F data is calibrated    *)
(* from the fits header and memoized.                                      *)

\* The layers of a LORRI cube; LORRI.filter_name is 'None'.
LorriLayers == <<"None", "Incidence Angle">>

\* The sources of the spectral distribution and their radiance conversion
\* in the fits header of the model images.
Sources == {"RSOLAR", "RPLUTO"}
FitsHdr == [RSOLAR |-> 2, RPLUTO |-> 3]

\* F_SOLAR, with pi, the exposure and the distance to the Sun of the model
\* images: I/F = Data * Calibration / radiance.
Calibration == 12

\* self._i / self._f
IoverF(a, source) ==
    IF a.err # "" THEN a
    ELSE Arr2(a.shape[1], a.shape[2], LAMBDA l, s :
            IF At(a, l, s) = NaN THEN NaN
            ELSE (At(a, l, s) * Calibration) \div FitsHdr[source])

\* LORRI.__src and LORRI.__data
Lorri(source, data) == [src |-> source, data |-> data]

\* LORRI.data: the memoized value, computed if None.
LorriData(h, c, off, lo) ==
    IF lo.data = NoneArr THEN IoverF(GetBand(h, c, off, "Data"), lo.src)
    ELSE lo.data

\* SSI.alignment on a LORRI: self.offset is False while _corr_s and _corr_l
\* read self.data, which stays in LORRI.__data.
LorriAlignment(h, c, lo, align, offset_s, offset_l) ==
    LET aligned == align \/ offset_s # <<>> \/ offset_l # <<>>
        correlated == aligned /\ (offset_s = <<>> \/ offset_l = <<>>)
        d == LorriData(h, c, <<>>, lo)
    IN [offset |-> IF aligned
                   THEN <<IF offset_s # <<>> THEN offset_s[1]
                          ELSE CorrOffset(d, Ground(h, c, <<>>), 0),
                          IF offset_l # <<>> THEN offset_l[1]
                          ELSE CorrOffset(d, Ground(h, c, <<>>), 1)>>
                   ELSE <<>>,
        lorri |-> IF correlated THEN Lorri(lo.src, d) ELSE lo]

\* LORRI(filename, src=source, align=align, offset_s=..., offset_l=...)
LorriNew(h, c, source, align, offset_s, offset_l) ==
    LorriAlignment(h, c, Lorri(source, NoneArr), align, offset_s, offset_l)

PropVal(name) == [kind |-> "property", name |-> name, s |-> NoCoord, l |-> NoCoord]

(* LORRI images to align, as the SSI images to align, built with every    *)
(* source, with and without the alignment, with and without offsets.      *)
LorriInit ==
    /\ \E nl \in 1..MaxImg, ns \in 1..MaxImg :
        \E foot \in Footprints(nl, ns) :
            \E ds \in (1 - ns)..(ns - 1), dl \in (1 - nl)..(nl - 1) :
                \E source \in Sources, align \in BOOLEAN,
                   offset_s \in PixOffArgs, offset_l \in PixOffArgs :
                    LET new == LorriNew(SsiHeader(nl, ns, LorriLayers),
                                        CorrCube(nl, ns, foot, ds, dl),
                                        source, align, offset_s, offset_l)
                    IN /\ hdr = SsiHeader(nl, ns, LorriLayers)
                       /\ cube = CorrCube(nl, ns, foot, ds, dl)
                       /\ offset = new.offset
                       /\ lorri = new.lorri
    /\ stream = <<>>
    /\ ret = NoneArr
    /\ got = GotNone
    /\ NoContour
    /\ NoFile
    /\ NoGeo

\* LORRI.data
LorriGetData ==
    /\ got' = GotBand(PropVal("data"), LorriData(hdr, cube, offset, lorri))
    /\ lorri' = Lorri(lorri.src, LorriData(hdr, cube, offset, lorri))
    /\ UNCHANGED <<offset, cubeVars, cntrVars, fileVars, geoVars>>

\* LORRI['Data']
LorriGetItem ==
    /\ got' = SsiGetItem(hdr, cube, offset, StrVal("Data"))
    /\ UNCHANGED <<offset, lorriVars, cubeVars, cntrVars, fileVars, geoVars>>

\* LORRI.src = source
LorriSetSrc ==
    /\ \E source \in Sources : lorri' = Lorri(source, NoneArr)
    /\ got' = GotNone
    /\ UNCHANGED <<offset, cubeVars, cntrVars, fileVars, geoVars>>

\* LORRI.alignment()
LorriAlign ==
    /\ offset' = LorriAlignment(hdr, cube, lorri, TRUE, <<>>, <<>>).offset
    /\ lorri' = LorriAlignment(hdr, cube, lorri, TRUE, <<>>, <<>>).lorri
    /\ got' = GotOffset
    /\ UNCHANGED <<cubeVars, cntrVars, fileVars, geoVars>>

LorriNext == LorriGetData \/ LorriGetItem \/ LorriSetSrc \/ LorriAlign

SpecLorri == LorriInit /\ [][LorriNext]_vars

\* The I/F of the data band under the offset of the instance.
Prescribed ==
    IoverF(ImgOffset(Band(cube, 0), offset, TRUE), lorri.src)

\* C28: the I/F data a LORRI returns has the border of its offset masked
\* as data_offset prescribes, whether the data was read before the offset
\* was set (by the correlation) or after.
C28_DataFollowsOffset ==
    (got.kind = "band" /\ got.val = PropVal("data") /\ offset # <<>>) =>
        got.arr = Prescribed

\* LORRI.data computed while __data is None follows the offset.
FreshDataFollowsOffset ==
    [][(lorri.data = NoneArr /\ got'.kind = "band" /\ got'.val = PropVal("data"))
          => got'.arr = Prescribed']_vars

\* The memoized data is the I/F of the data band as it is in the file or
\* as a former offset masked it: read again, it is what it was.
DataIsMemoized ==
    [][(lorri.data # NoneArr /\ got'.val = PropVal("data"))
          => (got'.arr = lorri.data /\ lorri' = lorri)]_vars

\* A LORRI built with align=True, its data read after the construction: the
\* offset is (1, 0) and the first sample of the data is not masked.
StaleData ==
    /\ got.kind = "band" /\ got.val = PropVal("data")
    /\ offset = <<1, 0>>
    /\ hdr.NS = 2 /\ hdr.NL = 1
    /\ At(got.arr, 0, 0) # NaN
    /\ At(Prescribed, 0, 0) = NaN


---------------------------------------------------------------------------
(* isis/isis.py: the file behind an ISISCube and the caches of the object. *)

MaxPaths == 2       \* paths of the disk

\* b'Object = IsisCube'
Signature ==
    <<"O", "b", "j", "e", "c", "t", " ", "=", " ", "I", "s", "i", "s", "C", "u", "b", "e">>

\* f.read(n) from the start of a file.
Read(bytes, n) == SubSeq(bytes, 1, Min2(n, Len(bytes)))

\* The headers and pixels of the cubes on the disk; the tiles of the last
\* one do not tile its lines and samples.
FileHeader(nl, ns, tl, ts, mult) ==
    [NB |-> 1, NL |-> nl, NS |-> ns, TL |-> tl, TS |-> ts,
     Type |-> "SignedWord", Mult |-> mult, Base |-> 0]

\* A file: whether the path exists, its first bytes, whether pvl.load reads
\* an IsisCube object from it, and the header and pixels it then holds.
File(exists, bytes, parses, h) ==
    [exists |-> exists, bytes |-> bytes, pvl |-> parses, hdr |-> h,
     stream |-> Ramp(h.NB * h.NL * h.NS)]

Missing == File(FALSE, <<>>, FALSE, FileHeader(1, 1, 1, 1, 1))

DiskFiles ==
    { Missing,
      File(TRUE, Signature \o <<"\n">>, TRUE, FileHeader(2, 2, 2, 2, 1)),
      File(TRUE, Signature \o <<"\n">>, TRUE, FileHeader(2, 2, 1, 1, 2)),
      File(TRUE, Signature, TRUE, FileHeader(2, 3, 2, 2, 1)),
      File(TRUE, <<" ">> \o Signature, TRUE, FileHeader(1, 2, 1, 2, 1)),
      File(TRUE, SubSeq(Signature, 1, 16) \o <<"s", "\n">>, FALSE, FileHeader(1, 1, 1, 1, 1)),
      File(TRUE, SubSeq(Signature, 1, 16), FALSE, FileHeader(1, 1, 1, 1, 1)),
      File(TRUE, <<>>, FALSE, FileHeader(1, 1, 1, 1, 1)) }

Paths == 1..MaxPaths

\* ISISCube.is_file
IsFile(f) == f.exists

\* is_isis that compares the first 16 bytes.
IsIsis_Read16(f) == Read(f.bytes, 16) = SubSeq(Signature, 1, 16)

\* ISISCube.is_isis
IsIsis(f) == Read(f.bytes, 17) = Signature

\* The exception the filename setter raises, "" when it returns.
SetterError(f) ==
    IF ~IsFile(f) THEN "FileNotFoundError"
    ELSE IF ~IsIsis(f) THEN "ISISError"
    ELSE ""

Called(name, path, exc) == [name |-> name, path |-> path, exc |-> exc]

FileInit ==
    /\ disk \in [Paths -> DiskFiles]
    /\ filename = NoObject
    /\ caches = {}
    /\ loads = 0
    /\ call = NoCall
    /\ hdr = FileHeader(1, 1, 1, 1, 1)
    /\ stream = <<>>
    /\ cube = NoneArr
    /\ ret = NoneArr
    /\ NoSSI
    /\ NoContour
    /\ NoGeo
    /\ NoLorri

\* ISISCube(filename): no object is left when __init__ raises.
New(path) ==
    /\ filename = NoObject
    /\ filename' = IF SetterError(disk[path]) = "" THEN path ELSE NoObject
    /\ caches' = {}
    /\ cube' = NoneArr
    /\ loads' = 0
    /\ call' = Called("new", path, SetterError(disk[path]))
    /\ UNCHANGED <<hdr, stream, ret, disk>>
    /\ UNCHANGED ssiVars
    /\ UNCHANGED cntrVars
    /\ UNCHANGED geoVars
    /\ UNCHANGED lorriVars

\* obj.filename = path: the fields are assigned before the checks, so the
\* object holds the new path even when the setter raises.
SetFilename(path) ==
    /\ filename # NoObject
    /\ filename' = path
    /\ caches' = {}
    /\ cube' = NoneArr
    /\ loads' = 0
    /\ call' = Called("filename", path, SetterError(disk[path]))
    /\ UNCHANGED <<hdr, stream, ret, disk>>
    /\ UNCHANGED ssiVars
    /\ UNCHANGED cntrVars
    /\ UNCHANGED geoVars
    /\ UNCHANGED lorriVars

\* The property cube that decodes on every access.
CubeProperty_NoMemo(c, f) ==
    [decoded |-> TRUE, arr |-> LoadData(f.hdr, f.stream)]

\* The property cube on the cache c and the file f: whether _load_data is
\* called, and the array returned (or the exception of the decoder).
CubeProperty(c, f) ==
    [decoded |-> c = NoneArr,
     arr |-> IF c = NoneArr THEN LoadData(f.hdr, f.stream) ELSE c]

\* obj.cube
GetCube ==
    /\ filename # NoObject
    /\ LET f == disk[filename]
           p == CubeProperty(cube, f)
       IN IF cube = NoneArr /\ ~f.exists
          THEN \* open(self.filename, 'rb') raises
               /\ call' = Called("cube", filename, "FileNotFoundError")
               /\ UNCHANGED <<cube, ret, caches, loads>>
          ELSE IF cube = NoneArr /\ ~f.pvl
          THEN \* self._start_byte raises, with or without a pvl to keep
               /\ call' = Called("cube", filename, "Exception")
               /\ caches' \in {caches, caches \cup {"pvl"}}
               /\ UNCHANGED <<cube, ret, loads>>
          ELSE /\ call' = Called("cube", filename, p.arr.err)
               /\ ret' = p.arr
               /\ cube' = IF p.arr.err = "" THEN p.arr ELSE cube
               /\ loads' = IF p.decoded /\ p.arr.err = "" THEN loads + 1 ELSE loads
               /\ caches' = IF p.decoded THEN caches \cup {"pvl"} ELSE caches
    /\ UNCHANGED <<hdr, stream, filename, disk>>
    /\ UNCHANGED ssiVars
    /\ UNCHANGED cntrVars
    /\ UNCHANGED geoVars
    /\ UNCHANGED lorriVars

\* What each header property fills: pvl, labels, tables, original labels.
Fills ==
    [pvl |-> {"pvl"}, labels |-> {"pvl", "labels"}, tables |-> {"pvl", "tables"},
     lbls |-> {"pvl", "lbls"}]

\* obj.pvl, obj.labels, obj.tables, the original labels
GetHeader(name) ==
    /\ filename # NoObject
    /\ LET f == disk[filename]
       IN IF name \in caches
          THEN call' = Called(name, filename, "") /\ UNCHANGED caches
          ELSE IF ~f.exists
          THEN call' = Called(name, filename, "FileNotFoundError") /\ UNCHANGED caches
          ELSE IF ~f.pvl
          THEN /\ call' = Called(name, filename, "Exception")
               /\ caches' \in {caches, caches \cup {"pvl"}}
          ELSE /\ call' = Called(name, filename, "")
               /\ caches' = caches \cup Fills[name]
    /\ UNCHANGED <<hdr, stream, cube, ret, filename, disk, loads>>
    /\ UNCHANGED ssiVars
    /\ UNCHANGED cntrVars
    /\ UNCHANGED geoVars
    /\ UNCHANGED lorriVars

FileNext ==
    \/ \E path \in Paths : New(path)
    \/ \E path \in Paths : SetFilename(path)
    \/ GetCube
    \/ \E name \in DOMAIN Fills : GetHeader(name)

SpecFile == FileInit /\ [][FileNext]_vars

---------------------------------------------------------------------------
(* Claims on the file and on the caches.                                   *)

\* The first 17 bytes of the file are the signature.
HasSignature(f) ==
    Len(f.bytes) >= 17 /\ \A i \in 1..17 : f.bytes[i] = Signature[i]

---------------------------------------------------------------------------
(* Claim on the named access.                                              *)

\* The name looked up in the list of the bands.
Resolved(name) == IF name = "Data" THEN hdr.FilterName ELSE name

Listed(name) == \E i \in DOMAIN hdr.Name : hdr.Name[i] = Resolved(name)

\* The (NL, NS) slice of the decoded cube at the first index of the name.
Slice(name) ==
    LET i == CHOOSE i \in DOMAIN hdr.Name :
                 /\ hdr.Name[i] = Resolved(name)
                 /\ \A j \in DOMAIN hdr.Name : hdr.Name[j] = Resolved(name) => i <= j
    IN Arr2(hdr.NL, hdr.NS,
            LAMBDA l, s : cube.flat[((i - 1) * hdr.NL + l) * hdr.NS + s])

\* C15 as stated: SSI[name] returns the slice of the cube at the index of
\* the name in the list of the bands, 'Data' being the filter name, and
\* raises ValueError for every name that is not in the list.
C15_NamedBand_Stated ==
    got.val.kind = "str" =>
        IF Listed(got.val.name)
        THEN got.kind = "band" /\ got.arr = Slice(got.val.name)
        ELSE got.kind = "ValueError"

\* C15, amended: the slice is returned as it is when the SSI holds no
\* offset; when it holds the offset (ds, dl) the array returned has the shape
\* of the slice and each of its pixels is NaN or a pixel of the slice, the
\* same pixel for 'Data' and the pixel (ds, dl) before for any other name;
\* ValueError is raised for every name that is not in the list, and for no
\* name of the list but one other than 'Data' under |ds| > NS or |dl| > NL.
C15_NamedBand ==
    got.val.kind = "str" =>
        IF Listed(got.val.name)
        THEN /\ got.kind \in {"band", "ValueError"}
             /\ got.kind = "ValueError" =>
                    /\ got.val.name # "Data"
                    /\ offset # <<>>
                    /\ Abs(offset[1]) > hdr.NS \/ Abs(offset[2]) > hdr.NL
             /\ (got.kind = "band" /\ offset = <<>>) => got.arr = Slice(got.val.name)
             /\ (got.kind = "band" /\ offset # <<>>) =>
                    /\ got.arr.shape = <<hdr.NL, hdr.NS>>
                    /\ \A p \in ImgPixels :
                        LET q == IF got.val.name = "Data" THEN p
                                 ELSE <<p[1] - offset[2], p[2] - offset[1]>>
                        IN \/ At(got.arr, p[1], p[2]) = NaN
                           \/ q \in ImgPixels /\
                                 At(got.arr, p[1], p[2]) = At(Slice(got.val.name), q[1], q[2])
        ELSE got.kind = "ValueError"

C15_Witness ==
    /\ got.kind = "band"
    /\ got.val.name = "Emission Angle"
    /\ hdr.NL = 2 /\ hdr.NS = 3
    /\ offset = <<>>
    /\ got.arr = Slice("Emission Angle")
    /\ At(got.arr, 1, 2) = 306

(* isis/isis.py: the radii of the target, read from the header.            *)

\* The NaifKeywords of the cubes on the disk: the cubes of multiplier 2 hold
\* no radii.
NaifKeywords(f) ==
    IF f.hdr.Mult = 2 THEN <<[k |-> "BODY502_POLE_RA", v |-> <<1, 1, 1>>]>>
    ELSE <<[k |-> "BODY_FRAME_CODE", v |-> <<1, 1, 1>>],
           [k |-> "BODY502_RADII", v |-> <<f.hdr.NL, f.hdr.NL * f.hdr.NS,
                    f.hdr.NL * f.hdr.NS * f.hdr.NS>>]>>

\* 'RADII' in k
HasRadii(k) == k \in {"BODY502_RADII"}

RECURSIVE FirstRadii(_, _)
\* for k, v in ...: if 'RADII' in k: return v; ValueError when none is.
FirstRadii(kw, i) ==
    IF i > Len(kw) THEN ErrArr("ValueError")
    ELSE IF HasRadii(kw[i].k) THEN Arr(<<3>>, [j \in 0..2 |-> kw[i].v[j + 1]])
    ELSE FirstRadii(kw, i + 1)

\* ISISCube.target_radii on the caches c and the file f: self.__pvl is read
\* as it is, None when no property has loaded the header.
TargetRadii(c, f) ==
    IF "pvl" \notin c THEN ErrArr("TypeError")
    ELSE IF ~f.pvl THEN ErrArr("KeyError")
    ELSE FirstRadii(NaifKeywords(f), 1)

\* The cube root of a cube.
Cbrt(x) == CHOOSE r \in 0..x : r * r * r = x

\* ISISCube.target_radius
TargetRadius(c, f) ==
    LET radii == TargetRadii(c, f)
    IN IF radii.err # "" THEN radii
       ELSE Arr(<<>>, [j \in {0} |-> Cbrt(radii.flat[0] * radii.flat[1] * radii.flat[2])])

\* obj.target_radii
GetTargetRadii ==
    /\ filename # NoObject
    /\ call' = Called("target_radii", filename, TargetRadii(caches, disk[filename]).err)
    /\ ret' = TargetRadii(caches, disk[filename])
    /\ UNCHANGED <<hdr, stream, cube, filename, disk, caches, loads>>
    /\ UNCHANGED ssiVars
    /\ UNCHANGED cntrVars
    /\ UNCHANGED geoVars
    /\ UNCHANGED lorriVars

\* obj.target_radius
GetTargetRadius ==
    /\ filename # NoObject
    /\ call' = Called("target_radius", filename, TargetRadius(caches, disk[filename]).err)
    /\ ret' = TargetRadius(caches, disk[filename])
    /\ UNCHANGED <<hdr, stream, cube, filename, disk, caches, loads>>
    /\ UNCHANGED ssiVars
    /\ UNCHANGED cntrVars
    /\ UNCHANGED geoVars
    /\ UNCHANGED lorriVars

HeaderNext == FileNext \/ GetTargetRadii \/ GetTargetRadius

SpecHeader == FileInit /\ [][HeaderNext]_vars

Radii == {"target_radii", "target_radius"}

\* C30: the accessors of the header, target_radii and target_radius among
\* them, load the header when it is not loaded: on a cube whose file holds
\* the radii they return them whether they are the first access to the
\* header or a later one, and do not fail on the unset cache.
C30_AccessOrder ==
    (call.name \in Radii /\ disk[call.path].exists /\ disk[call.path].pvl
        /\ disk[call.path].hdr.Mult # 2) =>
            /\ call.exc = ""
            /\ "pvl" \in caches
            /\ ret.flat[0] = IF call.name = "target_radii" THEN disk[call.path].hdr.NL
                             ELSE disk[call.path].hdr.NS * disk[call.path].hdr.NL

\* The radii fail on the unset cache and on no other.
RadiiNeedHeader ==
    [][call'.name \in Radii => (call'.exc = "TypeError" <=> "pvl" \notin caches)]_vars

\* Once the header is loaded the radii are those of the file, or the
\* ValueError of a file without radii.
RadiiOfLoadedHeader ==
    (call.name \in Radii /\ "pvl" \in caches /\ disk[call.path].pvl) =>
        IF disk[call.path].hdr.Mult = 2 THEN call.exc = "ValueError"
        ELSE /\ call.exc = ""
             /\ ret.flat[0] = IF call.name = "target_radii" THEN disk[call.path].hdr.NL
                              ELSE disk[call.path].hdr.NS * disk[call.path].hdr.NL

\* The mean radius 6 of the radii (2, 6, 18) has been returned after
\* the header was loaded; the radii failed as the first access.
RadiusAfterHeader ==
    /\ call.name = "target_radius" /\ call.exc = ""
    /\ disk[call.path].hdr.NL = 2 /\ disk[call.path].hdr.NS = 3
    /\ ret.flat[0] = 6
    /\ caches = {"pvl"}

RadiiFirst ==
    /\ call.name = "target_radii" /\ call.exc = "TypeError"
    /\ caches = {} /\ cube = NoneArr
    /\ disk[call.path].pvl /\ IsIsis(disk[call.path])


---------------------------------------------------------------------------
(* Claim on the cache of the decoded cube.                                 *)

\* C16: the cube is decoded at most once per assignment of the filename; an
\* access to a decoded cube returns the array kept and decodes nothing; the
\* array kept is only dropped by an assignment of the filename, which drops
\* the caches of the header, labels, tables and original labels with it.
C16_DecodedOnce ==
    [][/\ loads' <= 1
       /\ loads' > loads => (cube = NoneArr /\ call'.name = "cube" /\ cube' = ret')
       /\ (cube # NoneArr /\ call'.name = "cube") =>
              (ret' = cube /\ cube' = cube /\ loads' = loads)
       /\ (cube # NoneArr /\ cube' # cube) =>
              (call'.name = "filename" /\ cube' = NoneArr /\ caches' = {} /\ loads' = 0)
      ]_vars

\* A second cube decoded by the same object, after its filename changed.
C16_Witness ==
    /\ call.name = "cube"
    /\ call.exc = ""
    /\ loads = 1
    /\ cube = ret
    /\ cube.shape = <<1, 2, 2>>
    /\ cube.flat[1] = 2
    /\ filename = 2
    /\ disk[1].pvl /\ IsIsis(disk[1]) /\ disk[1].hdr.Mult = 1

---------------------------------------------------------------------------
(* ssi/ssi.py: the offset of an SSI over its public calls.                 *)

\* threshold=250 of ls_contours
DefaultThreshold == 250

GotContours == [val |-> NoVal, kind |-> "contours", arr |-> NoneArr, s |-> 0, l |-> 0]

\* SSI.valid_pixels: neither the data nor the longitude is NaN.
ValidPixels(h, c, off) ==
    LET data == GetBand(h, c, off, "Data")
        lon == GetBand(h, c, off, "Longitude")
    IN IF data.err # "" THEN data
       ELSE IF lon.err # "" THEN lon
       ELSE Arr2(h.NL, h.NS, LAMBDA l, s : At(data, l, s) # NaN /\ At(lon, l, s) # NaN)

\* contours_ls that aligns the image first.
ContoursLs_Aligned(h, c, off) ==
    LET new == AlignmentOffset(h, c, TRUE, <<>>, <<>>)
        valid == ValidPixels(h, c, new)
    IN [offset |-> new, cond |-> valid,
        contours |-> IF valid.err # "" THEN [err |-> valid.err, ls |-> <<>>]
                     ELSE LsContours(Edges(valid), DefaultThreshold)]

\* SSI.contours_ls on an SSI of offset off: the offset it leaves, the mask
\* it contours and the list it returns (or the exception it raises).
ContoursLs(h, c, off) ==
    LET valid == ValidPixels(h, c, off)
    IN [offset |-> off, cond |-> valid,
        contours |-> IF valid.err # "" THEN [err |-> valid.err, ls |-> <<>>]
                     ELSE LsContours(Edges(valid), DefaultThreshold)]

ViewAlign == \E align \in BOOLEAN, offset_s \in PixOffArgs, offset_l \in PixOffArgs :
                Alignment(align, offset_s, offset_l)

ViewGet ==
    \E val \in StrVals \cup {OtherVal, TupleVal([int |-> TRUE, v |-> 1], [int |-> TRUE, v |-> 1]),
                             TupleVal([int |-> TRUE, v |-> 0], [int |-> TRUE, v |-> 1])} :
        GetItem(val)

\* SSI.contours_ls, which geojson() reads the polygon from.
ViewContours ==
    /\ offset' = ContoursLs(hdr, cube, offset).offset
    /\ cond' = ContoursLs(hdr, cube, offset).cond
    /\ contours' = ContoursLs(hdr, cube, offset).contours
    /\ got' = GotContours
    /\ UNCHANGED threshold
    /\ UNCHANGED cubeVars
    /\ UNCHANGED fileVars
    /\ UNCHANGED geoVars
    /\ UNCHANGED lorriVars

ViewNext == ViewAlign \/ ViewGet \/ ViewContours

SpecView == SsiInit /\ [][ViewNext]_vars

\* C17 as stated: an offset, once computed, is not changed by any later
\* call on the SSI.
C17_OffsetStable_Stated == [][offset # <<>> => offset' = offset]_vars

\* C17, amended: the offset is only changed by a call of SSI.alignment;
\* the access to a band, to a pixel and the extraction of the contours
\* leave it as it is.
C17_OffsetStable ==
    [][got'.kind # "offset" => offset' = offset]_vars

\* A pixel read from an image aligned by the correlation, after its
\* contours were extracted.
C17_Witness ==
    /\ offset = <<AlignmentOffset(hdr, cube, TRUE, <<>>, <<>>)[1], 1>>
    /\ got.kind = "pixel"
    /\ DOMAIN cond # {}
    /\ hdr.NL = 3 /\ hdr.NS = 3

---------------------------------------------------------------------------
(* ssi/misc/geojson.py                                                     *)
(*                                                                         *)
(* A Python value handed to the module is a record [k, v, s, items]: k is  *)
(* its type, v the number it holds, s its text and items its elements.     *)
(* Numbers are counted in units of 1/Milli, so that the floats of the      *)
(* model are the doubles nearest to a decimal literal of three decimals.   *)

Milli == 1000       \* model units in 1.0
PRECISION == 2

Float(n) == [k |-> "float", v |-> n, s |-> "", items |-> <<>>]
PyInt(n) == [k |-> "int", v |-> n * Milli, s |-> "", items |-> <<>>]
NpFloat(n) == [k |-> "np.float64", v |-> n, s |-> "", items |-> <<>>]
NpInt(n) == [k |-> "np.int64", v |-> n * Milli, s |-> "", items |-> <<>>]
Bool(b) == [k |-> "bool", v |-> IF b THEN Milli ELSE 0, s |-> "", items |-> <<>>]
Str(s) == [k |-> "str", v |-> 0, s |-> s, items |-> <<>>]
List(items) == [k |-> "list", v |-> 0, s |-> "", items |-> items]

Numbers == {"float", "int", "np.float64", "np.int64", "bool"}

RECURSIVE Pow10(_)
Pow10(i) == IF i = 0 THEN 1 ELSE 10 * Pow10(i - 1)

RECURSIVE Pow2(_)
Pow2(i) == IF i = 0 THEN 1 ELSE 2 * Pow2(i - 1)

RECURSIVE Pow2Mod(_, _)
Pow2Mod(e, m) == IF e = 0 THEN 1 % m ELSE (2 * Pow2Mod(e - 1, m)) % m

\* floor(log2(a / Milli)) for a > 0: the binary exponent of the double.
RECURSIVE Exponent(_, _)
Exponent(a, k) ==
    IF a >= Milli
    THEN IF Milli * Pow2(k + 1) <= a THEN Exponent(a, k + 1) ELSE k
    ELSE IF a * Pow2(-k) >= Milli THEN k ELSE Exponent(a, k - 1)

\* float(value): the sign of (the double nearest to a / Milli) - a / Milli.
\* The double keeps 53 bits: its mantissa is a * 2^e / Milli rounded to the
\* nearest integer, half to even.
FloatError(a) ==
    IF a = 0 THEN 0
    ELSE LET e == 52 - Exponent(a, 0)
             rem == ((a % (2 * Milli)) * Pow2Mod(e, 2 * Milli)) % (2 * Milli)
             frac == rem % Milli
         IN IF frac = 0 THEN 0
            ELSE IF 2 * frac < Milli THEN -1
            ELSE IF 2 * frac > Milli THEN 1
            ELSE IF rem < Milli THEN -1 ELSE 1

\* round(float(value), prec) for prec >= 0: the multiple of 10^-prec nearest
\* to the double, and the even one when the double is half-way.
Round(n, prec) ==
    IF prec >= 3 THEN n
    ELSE LET unit == Pow10(3 - prec)
             a == Abs(n)
             q == a \div unit
             r == a % unit
             up == IF 2 * r # unit THEN 2 * r > unit
                   ELSE IF FloatError(a) # 0 THEN FloatError(a) > 0
                   ELSE q % 2 = 1
             m == (q + (IF up THEN 1 ELSE 0)) * unit
         IN IF n < 0 THEN -m ELSE m

Done(v) == [err |-> "", val |-> v]
Fail(e) == [err |-> e, val |-> List(<<>>)]

\* lon_e, lat = v; [self.round(lon_e), self.round(lat)], for v a number or
\* a list of numbers and lists.
Pair(v, prec) ==
    IF v.k # "list" THEN Fail("TypeError")
    ELSE IF Len(v.items) # 2 THEN Fail("ValueError")
    ELSE IF v.items[1].k \notin Numbers \/ v.items[2].k \notin Numbers
    THEN Fail("TypeError")
    ELSE Done(List(<<Float(Round(v.items[1].v, prec)),
                     Float(Round(v.items[2].v, prec))>>))

\* The nested comprehensions over vertices, rings and polygons: depth 1 is
\* one vertex. The first exception met stops the construction.
RECURSIVE Coordinates(_, _, _)
Coordinates(x, depth, prec) ==
    IF depth = 1 THEN Pair(x, prec)
    ELSE IF x.k # "list" THEN Fail("TypeError")
    ELSE LET each == [i \in 1..Len(x.items) |->
                         Coordinates(x.items[i], depth - 1, prec)]
             bad == {i \in 1..Len(x.items) : each[i].err # ""}
             first == CHOOSE i \in bad : \A j \in bad : i <= j
         IN IF bad = {} THEN Done(List([i \in 1..Len(x.items) |-> each[i].val]))
            ELSE Fail(each[first].err)

\* The shape numpy gives to a nested list. Lists of unequal shapes are kept
\* as objects from the level where they differ (numpy before 1.24).
RECURSIVE CommonPrefix(_, _)
CommonPrefix(a, b) ==
    IF a = <<>> \/ b = <<>> \/ Head(a) # Head(b) THEN <<>>
    ELSE <<Head(a)>> \o CommonPrefix(Tail(a), Tail(b))

RECURSIVE FoldPrefix(_, _, _)
FoldPrefix(shapes, i, acc) ==
    IF i > Len(shapes) THEN acc
    ELSE FoldPrefix(shapes, i + 1, CommonPrefix(acc, shapes[i]))

RECURSIVE NpShape(_)
NpShape(x) ==
    IF x.k # "list" THEN <<>>
    ELSE IF x.items = <<>> THEN <<0>>
    ELSE LET shapes == [i \in 1..Len(x.items) |-> NpShape(x.items[i])]
         IN <<Len(x.items)>> \o FoldPrefix(shapes, 2, shapes[1])

RECURSIVE Inhomogeneous(_)
Inhomogeneous(x) ==
    /\ x.k = "list"
    /\ \/ \E i \in 1..Len(x.items) : Inhomogeneous(x.items[i])
       \/ \E i, j \in 1..Len(x.items) : NpShape(x.items[i]) # NpShape(x.items[j])

\* The two ways numpy treats a list of unequal shapes: an array of objects
\* (before 1.24) or ValueError.
Numpys == {"object", "strict"}

\* np.ndim(x); -1 when numpy raises ValueError.
NpNdim(x, numpy) ==
    IF Inhomogeneous(x) /\ numpy = "strict" THEN -1 ELSE Len(NpShape(x))

\* np.transpose((a, b)) for a and b numbers or lists of numbers: the rows of
\* the array and its number of dimensions (an array of no row keeps two).
Transpose(a, b, numpy) ==
    IF a.k # "list" /\ b.k # "list"
    THEN [err |-> "", val |-> List(<<a, b>>), ndim |-> 1]
    ELSE IF a.k = "list" /\ b.k = "list" /\ Len(a.items) = Len(b.items)
    THEN [err |-> "", ndim |-> 2,
          val |-> List([i \in 1..Len(a.items) |-> List(<<a.items[i], b.items[i]>>)])]
    ELSE IF numpy = "strict" THEN [err |-> "ValueError", val |-> List(<<>>), ndim |-> 0]
    ELSE [err |-> "", val |-> List(<<a, b>>), ndim |-> 1]

\* A GeoJsonDict: `keys` are the keys of its data.
NoValue == List(<<>>)
Geometry(cls, c) ==
    [err |-> "", type |-> cls, keys |-> {"type", "coordinates"},
     coordinates |-> c, geometry |-> <<>>, properties |-> <<>>]
Raise(e) ==
    [err |-> e, type |-> "", keys |-> {}, coordinates |-> NoValue,
     geometry |-> <<>>, properties |-> <<>>]
Built(cls, c) == IF c.err # "" THEN Raise(c.err) ELSE Geometry(cls, c.val)

Point(args, prec) ==
    IF Len(args) = 1 THEN Built("Point", Pair(args[1], prec))
    ELSE IF Len(args) = 2 THEN Built("Point", Pair(List(args), prec))
    ELSE Raise("ValueError")

LineString(cls, args, prec, numpy) ==
    IF Len(args) = 1 THEN Built(cls, Coordinates(args[1], 2, prec))
    ELSE IF Len(args) = 2
    THEN LET vertices == Transpose(args[1], args[2], numpy)
         IN IF vertices.err # "" THEN Raise(vertices.err)
            ELSE Built(cls, Coordinates(vertices.val, 2, prec))
    ELSE Raise("ValueError")

\* The dimension check of Polygon without the wrapping of one ring.
PolygonRings_NoWrap(polygon, ndim) ==
    IF ndim \in {1, 2, 3} THEN Done(polygon) ELSE Fail("ValueError")

PolygonRings(polygon, ndim) ==
    IF ndim = 2 THEN Done(List(<<polygon>>))
    ELSE IF ndim \in {1, 3} THEN Done(polygon)
    ELSE Fail("ValueError")

Polygon(cls, args, prec, numpy) ==
    IF Len(args) \notin {1, 2} THEN Raise("ValueError")
    ELSE LET polygon == IF Len(args) = 1
                        THEN [err |-> "", val |-> args[1],
                              ndim |-> NpNdim(args[1], numpy)]
                        ELSE Transpose(args[1], args[2], numpy)
         IN IF polygon.err # "" THEN Raise(polygon.err)
            ELSE LET rings == PolygonRings(polygon.val, polygon.ndim)
                 IN IF rings.err # "" THEN Raise(rings.err)
                    ELSE Built(cls, Coordinates(rings.val, 3, prec))

MultiPoint(args, prec, numpy) == LineString("MultiPoint", args, prec, numpy)
MultiLineString(args, prec, numpy) == Polygon("MultiLineString", args, prec, numpy)
MultiPolygon(polygons, prec) ==
    Built("MultiPolygon", Coordinates(polygons, 4, prec))

\* A keyword is the tuple of its characters.
Uppercase ==
    <<"A", "B", "C", "D", "E", "F", "G", "H", "I", "J", "K", "L", "M",
      "N", "O", "P", "Q", "R", "S", "T", "U", "V", "W", "X", "Y", "Z">>
Lowercase ==
    <<"a", "b", "c", "d", "e", "f", "g", "h", "i", "j", "k", "l", "m",
      "n", "o", "p", "q", "r", "s", "t", "u", "v", "w", "x", "y", "z">>

\* key.lower()
Lower(key) ==
    [i \in 1..Len(key) |->
        IF \E n \in 1..26 : Uppercase[n] = key[i]
        THEN Lowercase[CHOOSE n \in 1..26 : Uppercase[n] = key[i]]
        ELSE key[i]]

GEOMETRIES ==
    (<<"p", "o", "i", "n", "t">> :> "Point")
    @@ (<<"l", "i", "n", "e">> :> "LineString")
    @@ (<<"l", "i", "n", "e", "s", "t", "r", "i", "n", "g">> :> "LineString")
    @@ (<<"p", "o", "l", "y", "g", "o", "n">> :> "Polygon")
    @@ (<<"m", "u", "l", "t", "i", "p", "o", "i", "n", "t">> :> "MultiPoint")
    @@ (<<"m", "u", "l", "t", "i", "l", "i", "n", "e">> :> "MultiLineString")
    @@ (<<"m", "u", "l", "t", "i", "l", "i", "n", "e",
          "s", "t", "r", "i", "n", "g">> :> "MultiLineString")
    @@ (<<"m", "u", "l", "t", "i", "p", "o", "l", "y", "g", "o", "n">>
            :> "MultiPolygon")

\* GEOMETRIES[name](value, prec=prec)
Construct(cls, value, prec, numpy) ==
    CASE cls = "Point" -> Point(<<value>>, prec)
      [] cls = "LineString" -> LineString(cls, <<value>>, prec, numpy)
      [] cls = "MultiPoint" -> MultiPoint(<<value>>, prec, numpy)
      [] cls = "Polygon" -> Polygon(cls, <<value>>, prec, numpy)
      [] cls = "MultiLineString" -> MultiLineString(<<value>>, prec, numpy)
      [] cls = "MultiPolygon" -> MultiPolygon(value, prec)

\* The value Feature stores for a keyword that is not a geometry.
Property(value, prec) ==
    IF value.k \in {"float", "np.float64"} THEN Float(Round(value.v, prec))
    ELSE IF value.k = "np.int64" THEN [value EXCEPT !.k = "int"]
    ELSE value

\* Feature(prec, **kwargs): kwargs is the sequence of the keywords, in the
\* order of the call, each [key, value] and no key twice.
Feature(kwargs, prec, numpy) ==
    LET geoms == {i \in 1..Len(kwargs) : Lower(kwargs[i].key) \in DOMAIN GEOMETRIES}
        props == (1..Len(kwargs)) \ geoms
        made == [i \in geoms |-> Construct(GEOMETRIES[Lower(kwargs[i].key)],
                                           kwargs[i].value, prec, numpy)]
        bad == {i \in geoms : made[i].err # ""}
        first == CHOOSE i \in bad : \A j \in bad : i <= j
        last == CHOOSE i \in geoms : \A j \in geoms : j <= i
    IN IF bad # {} THEN Raise(made[first].err)
       ELSE [err |-> "", type |-> "Feature",
             keys |-> {"type"} \cup (IF geoms # {} THEN {"geometry"} ELSE {})
                               \cup (IF props # {} THEN {"properties"} ELSE {}),
             coordinates |-> NoValue,
             geometry |-> IF geoms # {} THEN made[last] ELSE <<>>,
             properties |-> [key \in {kwargs[i].key : i \in props} |->
                                LET i == CHOOSE j \in props : kwargs[j].key = key
                                IN Property(kwargs[i].value, prec)]]

\* GeoJson that builds a Feature from a lone keyword that is no geometry.
GeoJson_Lenient(kwargs, prec, numpy) ==
    IF Len(kwargs) = 1 /\ Lower(kwargs[1].key) \in DOMAIN GEOMETRIES
    THEN Construct(GEOMETRIES[Lower(kwargs[1].key)], kwargs[1].value, prec, numpy)
    ELSE Feature(kwargs, prec, numpy)

\* GeoJson(prec, **kwargs)
GeoJson(kwargs, prec, numpy) ==
    IF Len(kwargs) = 1
    THEN IF Lower(kwargs[1].key) \in DOMAIN GEOMETRIES
         THEN Construct(GEOMETRIES[Lower(kwargs[1].key)], kwargs[1].value,
                        prec, numpy)
         ELSE Raise("KeyError")
    ELSE Feature(kwargs, prec, numpy)

---------------------------------------------------------------------------
(* Calls of the GeoJson module.                                            *)

MaxPrec == 3        \* largest rounding precision
MaxRing == 2        \* most vertices of a drawn ring, most numbers of a list
MaxKwargs == 2      \* most keywords of a GeoJson call

Precs == 0..MaxPrec

\* Coordinates of vertices: an integer, and a decimal tie that is no double.
LonLats == {PyInt(100), Float(2675)}

\* Numbers to round: integers, non-ties, and ties at 0, 1 and 2 decimals.
RoundVals ==
    {PyInt(0), PyInt(102), Float(1234), Float(-1236), Float(500), Float(1500),
     Float(2500), Float(250), Float(125), Float(375), Float(2675), Float(1005),
     Float(-2665), NpFloat(-100125), NpInt(-3)}

Vertices == {List(<<a, b>>) : a, b \in LonLats}
Lists(S) == UNION {{List(q) : q \in [1..n -> S]} : n \in 0..MaxRing}
Rings == Lists(Vertices)
Holes == Lists({List(<<PyInt(100), Float(2675)>>)})

Square ==
    List(<<List(<<PyInt(100), PyInt(0)>>), List(<<PyInt(102), PyInt(0)>>),
           List(<<PyInt(102), PyInt(2)>>), List(<<PyInt(100), PyInt(2)>>),
           List(<<PyInt(100), PyInt(0)>>)>>)
Hole ==
    List(<<List(<<Float(100800), Float(800)>>), List(<<Float(100800), Float(200)>>),
           List(<<Float(100200), Float(200)>>), List(<<Float(100800), Float(800)>>)>>)

\* What a caller may hand to Polygon as its one argument: a ring, a list of
\* one or two rings, a number, a list of numbers, a list of polygons.
PolygonArgs ==
    Rings \cup {List(<<r>>) : r \in Rings}
          \cup {List(<<r1, r2>>) : r1 \in Rings, r2 \in Holes}
          \cup {Square, List(<<Square, Hole>>), List(<<Square, Square>>)}
          \cup LonLats \cup Lists(LonLats)
          \cup {List(<<List(<<r>>)>>) : r \in Rings}

PointArgs ==
    {<<List(<<a, b>>)>> : a, b \in RoundVals}
        \cup {<<a, b>> : a, b \in RoundVals}
        \cup {<<>>, <<PyInt(1)>>, <<PyInt(1), PyInt(2), PyInt(3)>>,
              <<List(<<PyInt(1), PyInt(2), PyInt(3)>>)>>, <<Square, PyInt(1)>>}

\* One argument, or (longitudes, latitudes), or another number of arguments.
VerticesArgs(one) ==
    {<<x>> : x \in one}
        \cup {<<a, b>> : a, b \in Lists(LonLats) \cup {PyInt(1)}}
        \cup {<<>>, <<PyInt(1), PyInt(2), PyInt(3)>>,
              <<List(<<PyInt(1)>>), List(<<PyInt(2)>>), List(<<PyInt(3)>>)>>}

KeyPolygon == <<"p", "o", "l", "y", "g", "o", "n">>
KeyPOINT == <<"P", "O", "I", "N", "T">>
KeyName == <<"n", "a", "m", "e">>
KeyNS == <<"N", "S">>
Keywords == {KeyPolygon, KeyPOINT, KeyName, KeyNS}

KwValues ==
    {Float(2675), NpFloat(-100125), NpInt(3), PyInt(3), Str("G3"),
     Square, List(<<PyInt(100), Float(1234)>>)}

Kwargs ==
    UNION {{q \in [1..n -> [key : Keywords, value : KwValues]] :
               \A i, j \in 1..n : i # j => q[i].key # q[j].key} : n \in 0..MaxKwargs}

GeoCalled(cls, args, kwargs, prec) ==
    [cls |-> cls, args |-> args, kwargs |-> kwargs, prec |-> prec]

GeoCalls ==
    {GeoCalled("Point", args, <<>>, prec) : args \in PointArgs, prec \in Precs}
    \cup {GeoCalled(cls, args, <<>>, prec) :
            cls \in {"LineString", "MultiPoint"}, args \in VerticesArgs(Rings),
            prec \in Precs}
    \cup {GeoCalled("Polygon", args, <<>>, prec) :
            args \in VerticesArgs(PolygonArgs), prec \in Precs}
    \cup {GeoCalled("GeoJson", <<>>, kwargs, prec) :
            kwargs \in Kwargs, prec \in Precs}

\* No object yet: the call has not returned.
Pending ==
    [err |-> "", type |-> "", keys |-> {}, coordinates |-> NoValue,
     geometry |-> <<>>, properties |-> <<>>]

GeoInit ==
    /\ geoCall \in GeoCalls
    /\ geo = Pending
    /\ hdr = FileHeader(1, 1, 1, 1, 1)
    /\ stream = <<>>
    /\ cube = NoneArr
    /\ ret = NoneArr
    /\ NoSSI
    /\ NoContour
    /\ NoFile
    /\ NoLorri

NewPoint ==
    /\ geo = Pending /\ geoCall.cls = "Point"
    /\ geo' = Point(geoCall.args, geoCall.prec)
    /\ UNCHANGED <<geoCall, cubeVars, ssiVars, cntrVars, fileVars, lorriVars>>

\* The installed numpy is either of the two.
NewLineString ==
    /\ geo = Pending /\ geoCall.cls = "LineString"
    /\ \E numpy \in Numpys :
          geo' = LineString("LineString", geoCall.args, geoCall.prec, numpy)
    /\ UNCHANGED <<geoCall, cubeVars, ssiVars, cntrVars, fileVars, lorriVars>>

NewMultiPoint ==
    /\ geo = Pending /\ geoCall.cls = "MultiPoint"
    /\ \E numpy \in Numpys :
          geo' = MultiPoint(geoCall.args, geoCall.prec, numpy)
    /\ UNCHANGED <<geoCall, cubeVars, ssiVars, cntrVars, fileVars, lorriVars>>

NewPolygon ==
    /\ geo = Pending /\ geoCall.cls = "Polygon"
    /\ \E numpy \in Numpys :
          geo' = Polygon("Polygon", geoCall.args, geoCall.prec, numpy)
    /\ UNCHANGED <<geoCall, cubeVars, ssiVars, cntrVars, fileVars, lorriVars>>

NewGeoJson ==
    /\ geo = Pending /\ geoCall.cls = "GeoJson"
    /\ \E numpy \in Numpys :
          geo' = GeoJson(geoCall.kwargs, geoCall.prec, numpy)
    /\ UNCHANGED <<geoCall, cubeVars, ssiVars, cntrVars, fileVars, lorriVars>>

GeoNext == NewPoint \/ NewLineString \/ NewMultiPoint \/ NewPolygon \/ NewGeoJson

SpecGeo == GeoInit /\ [][GeoNext]_vars

---------------------------------------------------------------------------
(* Claims on the GeoJson geometries.                                       *)

Returned == geo # Pending
IsNumber(x) == x.k \in Numbers
IsVertex(x) == x.k = "list" /\ Len(x.items) = 2 /\ \A i \in 1..2 : IsNumber(x.items[i])
IsRing(x) ==
    x.k = "list" /\ x.items # <<>> /\ \A i \in 1..Len(x.items) : IsVertex(x.items[i])
IsRingList(x) ==
    /\ x.k = "list" /\ x.items # <<>>
    /\ \A i \in 1..Len(x.items) : IsRing(x.items[i])
SameLengths(x) ==
    \A i, j \in 1..Len(x.items) : Len(x.items[i].items) = Len(x.items[j].items)

\* r is the float nearest to the number x among those of prec decimals.
Unit(prec) == IF prec >= 3 THEN 1 ELSE Pow10(3 - prec)
Nearest(r, x, prec) ==
    /\ r.k = "float"
    /\ r.v % Unit(prec) = 0
    /\ 2 * Abs(r.v - x.v) <= Unit(prec)

\* out is the list of the vertices of ring, in order, each rounded.
Serialised(out, ring, prec) ==
    /\ out.k = "list" /\ Len(out.items) = Len(ring.items)
    /\ \A i \in 1..Len(ring.items) :
          /\ out.items[i].k = "list" /\ Len(out.items[i].items) = 2
          /\ \A c \in 1..2 :
                Nearest(out.items[i].items[c], ring.items[i].items[c], prec)

SerialisedRings(out, rings, prec) ==
    /\ out.k = "list" /\ Len(out.items) = Len(rings.items)
    /\ \A i \in 1..Len(rings.items) : Serialised(out.items[i], rings.items[i], prec)

IsPolygon(o) == o.err = "" /\ o.type = "Polygon" /\ o.keys = {"type", "coordinates"}
OneArg == geoCall.cls = "Polygon" /\ Returned /\ Len(geoCall.args) = 1

\* C18 as stated: a Polygon of one ring of vertices (2-D input) has type
\* Polygon and the one-element list of that ring as coordinates, a Polygon of
\* a list of rings (3-D input) keeps the rings in order, every coordinate is
\* the input as a float rounded to prec decimals, and an input of any other
\* dimensionality raises ValueError.
C18_PolygonSerialisation_Stated ==
    OneArg =>
        LET x == geoCall.args[1]
            ndim == Len(NpShape(x))
        IN /\ IsRing(x) =>
                 IsPolygon(geo) /\ SerialisedRings(geo.coordinates, List(<<x>>), geoCall.prec)
           /\ (IsRingList(x) /\ SameLengths(x)) =>
                 IsPolygon(geo) /\ SerialisedRings(geo.coordinates, x, geoCall.prec)
           /\ ndim \notin {2, 3} => geo.err = "ValueError"

\* C18: a Polygon of one ring of vertices (2-D input) has type Polygon and the
\* one-element list of that ring as coordinates, a Polygon of a list of rings
\* of equal lengths (3-D input) keeps the rings in order, and every coordinate
\* is the input as a float rounded to prec decimals. A number and a list of
\* four or more dimensions raise ValueError. A 1-D input passes the dimension
\* check as a list of rings: the empty list gives a Polygon without ring, a
\* list of numbers raises TypeError, and a list of rings of unequal lengths
\* gives its rings in order where numpy makes it an array of objects and
\* raises ValueError where numpy refuses it.
C18_PolygonSerialisation ==
    OneArg =>
        LET x == geoCall.args[1]
            ndim == Len(NpShape(x))
        IN /\ IsRing(x) =>
                 IsPolygon(geo) /\ SerialisedRings(geo.coordinates, List(<<x>>), geoCall.prec)
           /\ (IsRingList(x) /\ SameLengths(x)) =>
                 IsPolygon(geo) /\ SerialisedRings(geo.coordinates, x, geoCall.prec)
           /\ ndim \notin {1, 2, 3} => geo.err = "ValueError"
           /\ x = List(<<>>) => IsPolygon(geo) /\ geo.coordinates = List(<<>>)
           /\ (ndim = 1 /\ x.items # <<>> /\ \A i \in 1..Len(x.items) : IsNumber(x.items[i]))
                 => geo.err = "TypeError"
           /\ (IsRingList(x) /\ ~SameLengths(x)) =>
                 \/ geo.err = "ValueError"
                 \/ IsPolygon(geo) /\ SerialisedRings(geo.coordinates, x, geoCall.prec)

SquareFloats ==
    List(<<List(<<Float(100000), Float(0)>>), List(<<Float(102000), Float(0)>>),
           List(<<Float(102000), Float(2000)>>), List(<<Float(100000), Float(2000)>>),
           List(<<Float(100000), Float(0)>>)>>)

\* The square has been serialised at precision 2.
C18_Witness ==
    /\ OneArg /\ geoCall.prec = PRECISION
    /\ geoCall.args = <<Square>>
    /\ IsPolygon(geo)
    /\ geo.coordinates = List(<<SquareFloats>>)

Kw == geoCall.kwargs
IsGeometry(i) == Lower(Kw[i].key) \in DOMAIN GEOMETRIES
GeometryKws == {i \in 1..Len(Kw) : IsGeometry(i)}
PropertyKws == {i \in 1..Len(Kw) : ~IsGeometry(i)}
LastGeometryKw == CHOOSE i \in GeometryKws : \A j \in GeometryKws : j <= i

\* What the geometry class named by keyword i gives when called with the
\* value of the keyword.
Direct(i) ==
    {Construct(GEOMETRIES[Lower(Kw[i].key)], Kw[i].value, geoCall.prec, numpy) :
        numpy \in Numpys}

\* p is the property stored for the value x.
Converted(p, x, prec) ==
    IF x.k \in {"float", "np.float64"} THEN Nearest(p, x, prec)
    ELSE IF x.k = "np.int64" THEN p.k = "int" /\ p.v = x.v
    ELSE p = x

\* C19: GeoJson with exactly one keyword that names a geometry, whatever the
\* case of its letters, returns the bare geometry object; with exactly one
\* keyword that names no geometry it raises KeyError; with any other set of
\* keywords it returns a Feature whose geometry is built from the geometry
\* keyword (the last one when several are given, none when none is given) and
\* whose properties hold every other keyword: floats rounded to prec, numpy
\* integers as int, other values unchanged. An exception of the geometry class
\* is the exception of the call.
C19_GeoJsonDispatch ==
    (geoCall.cls = "GeoJson" /\ Returned) =>
        /\ (Len(Kw) = 1 /\ IsGeometry(1)) =>
              /\ geo \in Direct(1)
              /\ geo.err = "" =>
                    /\ geo.type = GEOMETRIES[Lower(Kw[1].key)]
                    /\ geo.keys = {"type", "coordinates"}
        /\ (Len(Kw) = 1 /\ ~IsGeometry(1)) => geo.err = "KeyError"
        /\ (Len(Kw) # 1 /\ \E i \in GeometryKws : \A g \in Direct(i) : g.err # "") =>
              geo.err \notin {"", "KeyError"}
        /\ (Len(Kw) # 1 /\ \A i \in GeometryKws : \A g \in Direct(i) : g.err = "") =>
              /\ geo.err = "" /\ geo.type = "Feature"
              /\ "geometry" \in geo.keys <=> GeometryKws # {}
              /\ GeometryKws # {} => geo.geometry \in Direct(LastGeometryKw)
              /\ "properties" \in geo.keys <=> PropertyKws # {}
              /\ DOMAIN geo.properties = {Kw[i].key : i \in PropertyKws}
              /\ \A i \in PropertyKws :
                    Converted(geo.properties[Kw[i].key], Kw[i].value, geoCall.prec)

\* A Feature of the square with a numpy integer has been built at precision 2.
C19_Witness ==
    /\ geoCall.cls = "GeoJson" /\ Returned /\ geoCall.prec = PRECISION
    /\ Kw = <<[key |-> KeyPolygon, value |-> Square], [key |-> KeyNS, value |-> NpInt(3)]>>
    /\ geo.type = "Feature"
    /\ geo.geometry.type = "Polygon"
    /\ geo.geometry.coordinates = List(<<SquareFloats>>)
    /\ geo.properties[KeyNS] = PyInt(3)

Positional == {"Point", "LineString", "MultiPoint", "Polygon"}
IsNumbers(x) == x.k = "list" /\ \A i \in 1..Len(x.items) : IsNumber(x.items[i])

\* The call gave (longitudes, latitudes): two numbers to Point, two lists of
\* as many numbers to the other classes.
LonsLats ==
    /\ geoCall.cls \in Positional /\ Returned /\ Len(geoCall.args) = 2
    /\ IF geoCall.cls = "Point"
       THEN IsNumber(geoCall.args[1]) /\ IsNumber(geoCall.args[2])
       ELSE /\ IsNumbers(geoCall.args[1]) /\ IsNumbers(geoCall.args[2])
            /\ Len(geoCall.args[1].items) = Len(geoCall.args[2].items)

\* The one argument that holds the same [lon, lat] vertices in the same order.
VerticesOf(lons, lats) ==
    IF lons.k # "list" THEN List(<<lons, lats>>)
    ELSE List([i \in 1..Len(lons.items) |-> List(<<lons.items[i], lats.items[i]>>)])

\* What the class gives when called with the one argument x.
FromOne(cls, x, prec) ==
    {CASE cls = "Point" -> Point(<<x>>, prec)
       [] cls = "LineString" -> LineString(cls, <<x>>, prec, numpy)
       [] cls = "MultiPoint" -> MultiPoint(<<x>>, prec, numpy)
       [] cls = "Polygon" -> Polygon(cls, <<x>>, prec, numpy) : numpy \in Numpys}

\* C20: for Point, LineString, MultiPoint and Polygon the object built from
\* (longitudes, latitudes) is the object built from the one argument holding
\* the [lon, lat] vertices in the same order, and any number of positional
\* arguments other than one and two raises ValueError.
C20_TwoArguments ==
    /\ LonsLats =>
          geo \in FromOne(geoCall.cls,
                          VerticesOf(geoCall.args[1], geoCall.args[2]), geoCall.prec)
    /\ (geoCall.cls \in Positional /\ Returned /\ Len(geoCall.args) \notin {1, 2}) =>
          geo.err = "ValueError"

\* The same holds of every call but Polygon([], []).
TwoArgumentsOfVertices ==
    /\ (LonsLats /\ ~(geoCall.cls = "Polygon" /\ geoCall.args[1].items = <<>>)) =>
          /\ geo \in FromOne(geoCall.cls,
                             VerticesOf(geoCall.args[1], geoCall.args[2]), geoCall.prec)
          /\ geo.err = ""
    /\ (geoCall.cls \in Positional /\ Returned /\ Len(geoCall.args) \notin {1, 2}) =>
          geo.err = "ValueError"

\* Polygon([], []) has one ring without vertex, Polygon([]) has no ring.
EmptyPolygons ==
    (LonsLats /\ geoCall.cls = "Polygon" /\ geoCall.args[1].items = <<>>) =>
        /\ geo.coordinates = List(<<List(<<>>)>>)
        /\ \A o \in FromOne("Polygon", List(<<>>), geoCall.prec) :
              o.coordinates = List(<<>>)

\* The calls of the lemmas have happened.
TwoArgumentsReached ==
    /\ LonsLats /\ geoCall.cls = "Polygon" /\ geo.err = ""
    /\ Len(geoCall.args[1].items) = MaxRing
    /\ geoCall.args[1].items[1] # geoCall.args[2].items[1]

=============================================================================
